---- MODULE Spec2Model ----
(***************************************************************************)
(* Model of arduino/compile-sketches (compilesketches.py and               *)
(* reportsizetrends.py).                                                   *)
(*                                                                         *)
(* Values.  Python mixes integers, the string "N/A" and None in the same   *)
(* fields; here every such value is tagged: Num(n), the N/A indicator, or  *)
(* None.  A percentage rounded to two decimals is held as an integer       *)
(* number of hundredths (50.0 is Num(5000), 66.67 is Num(6667)).           *)
(*                                                                         *)
(* Compiler output.  The captured output is a sequence of lines.  The     *)
(* regular expressions of get_sizes_from_output never match across a line  *)
(* break, so a line is held as the fields those expressions read: the      *)
(* phrase it starts with, the digits after it, and the digits of its       *)
(* "Maximum is ... bytes." clause (empty when the clause is missing).      *)
(*                                                                         *)
(* Strings the code takes apart (URLs, platform names) are sequences of    *)
(* characters; a dependency declaration is a function from its keys; an    *)
(* optional dictionary or list is None or Some(value).                     *)
(*                                                                         *)
(* Specifications.  Spec is a run of main(): __init__, then                 *)
(* compile_sketches().  SpecInstall is a run of install_platforms on a     *)
(* runner with no platform installed.  SpecSizes, SpecDelta, SpecSort,     *)
(* SpecPath, SpecFind and SpecSummary apply the output parsers, the delta  *)
(* reports, sort_dependency_list, get_platform_installation_path,          *)
(* find_sketches and get_sketches_report to every input of a bounded set.  *)
(* SpecOrder applies get_sketches_report to a list of sketch reports in    *)
(* every order, SpecElapsed prints the time a compilation took.            *)
(* SpecColumns applies get_data_column_letters of reportsizetrends.py to   *)
(* heading rows of every length, SpecTrends has two jobs run               *)
(* report_size_trends again and again on one sheet, from the empty sheet   *)
(* on, request by request.                                                 *)
(*                                                                         *)
(* File trees.  A path is the sequence of its components below the         *)
(* workspace, a file tree the set of its files and the set of its folders. *)
(***************************************************************************)
EXTENDS Integers, Sequences, FiniteSets, TLC

VARIABLES
    \* ---- one run of compile_sketches()
    pc,                          \* position in compile_sketches / get_sketch_report
    enable_deltas_report,        \* self.enable_deltas_report
    enable_warnings_report,      \* self.enable_warnings_report
    sketch_list,                 \* list returned by find_sketches()
    sketch_index,                \* position of the for loop in sketch_list
    deltas_base_ref,             \* self.deltas_base_ref
    head,                        \* revision checked out in the workspace
    original_git_ref,            \* local of get_sketch_report
    compilation_result,          \* result of the current-revision compile_sketch()
    previous_compilation_result, \* result of the baseline compile_sketch()
    sketch_report_list,          \* reports appended so far
    all_compilations_successful, \* local of compile_sketches
    report_file,                 \* what create_sketches_report_file wrote
    exit_status,                 \* status of the process once it ended
    history,                     \* every compilation and checkout, in order
    \* ---- get_sizes_from_output / get_warning_count_from_output applied to one result
    compilation_data,            \* what the compile command returned: returncode, stdout
    parse_input,                 \* the CompilationResult compile_sketch makes of it
    parsed_sizes,                \* get_sizes_from_output(parse_input)
    parsed_warning_count,        \* get_warning_count_from_output(parse_input)
    \* ---- get_size_report / get_warnings_report applied to one pair of figures
    delta_input,                 \* current and previous size and warning figures
    size_report,                 \* get_size_report(current_size, previous_size)
    warnings_report,             \* get_warnings_report(current, previous)
    \* ---- sort_dependency_list applied to one list
    dependency_list,
    sorted_dependencies,
    \* ---- get_platform_installation_path applied to one platform
    path_input,                  \* platform, Arduino CLI version, output of core list
    platform_installation_path,
    \* ---- install_platforms
    install_input,               \* platforms input, fqbn, additional URL, Arduino CLI version
    platform_list,               \* local of install_platforms
    install_pc,                  \* position in install_platforms
    install_index,               \* position of the for loop in the list being installed
    installed_platforms,         \* what the package manager lists as installed
    platform_files,              \* platform installations on disk
    install_history,             \* commands, resolver calls and installations, in order
    install_exit_status,         \* status of the process once it ended
    \* ---- find_sketches applied to one file tree
    find_input,                  \* the file tree and self.sketch_paths
    find_result,                 \* exit status or returned list of find_sketches()
    \* ---- get_sketches_report applied to one list of sketch reports
    summary_input,               \* sketch_report_list
    sizes_summary,               \* get_sizes_summary_report(sketch_report_list)
    warnings_summary,            \* get_warnings_summary_report(sketch_report_list)
    sketches_report,             \* get_sketches_report(sketch_report_list)
    \* ---- the inputs of the action and what __init__ makes of verbose
    construct_input,             \* verbose, enable-deltas-report, enable-warnings-report, event
    verbose,                     \* self.verbose
    \* ---- the elapsed time compile_sketch prints
    diff_time,                   \* time.monotonic() - start_time
    time_summary,                \* what follows "Compilation time elapsed:"
    \* ---- get_data_column_letters of reportsizetrends.py applied to one heading row
    heading_row_input,           \* self.fqbn and heading_row_data["values"][0]
    data_column_letters,         \* what get_data_column_letters returns
    \* ---- report_size_trends of reportsizetrends.py, run by two jobs on one sheet
    spreadsheet,                 \* the cells of the sheet: rows of cells
    jobs,                        \* of each job: its position in report_size_trends, locals
    last_run,                    \* the report of the last run that returned, its requests
    runs_done,                   \* number of runs started so far
    conflicting_runs             \* two runs of different FQBN or commit were under way at once

pipelineVars == <<pc, enable_deltas_report, enable_warnings_report, sketch_list, sketch_index,
                  deltas_base_ref, head, original_git_ref, compilation_result, previous_compilation_result,
                  sketch_report_list, all_compilations_successful, report_file, exit_status,
                  history>>
parseVars == <<compilation_data, parse_input, parsed_sizes, parsed_warning_count>>
deltaVars == <<delta_input, size_report, warnings_report>>
sortVars == <<dependency_list, sorted_dependencies>>
pathVars == <<path_input, platform_installation_path>>
installVars == <<install_input, platform_list, install_pc, install_index, installed_platforms,
                 platform_files, install_history, install_exit_status>>
findVars == <<find_input, find_result>>
summaryVars == <<summary_input, sizes_summary, warnings_summary, sketches_report>>
constructVars == <<construct_input, verbose>>
elapsedVars == <<diff_time, time_summary>>
columnsVars == <<heading_row_input, data_column_letters>>
trendsVars == <<spreadsheet, jobs, last_run, runs_done, conflicting_runs>>
vars == <<pipelineVars, parseVars, deltaVars, sortVars, pathVars, installVars, findVars,
         summaryVars, constructVars, elapsedVars, columnsVars, trendsVars>>

-----------------------------------------------------------------------------
(* Bounds of the model *)

MaxSketches == 2      \* sketches find_sketches may return
MaxLines == 2         \* lines of a compilation output
MaxSize == 6          \* largest byte count given to get_size_report
MaxWarnings == 2      \* largest warning count given to get_warnings_report
MaxDependencies == 3  \* entries of a dependency list
MaxInstalled == 2     \* entries of the installed platform list

-----------------------------------------------------------------------------
(* Tagged values *)

Num(n) == <<"int", n>>
not_applicable_indicator == <<"N/A">>
IsNum(v) == Len(v) = 2
Val(v) == v[2]

\* None is the empty tuple; an optional record or list r that is present is Some(r).
\* A result variable is None until the operation that computes it has run.
None == <<>>
Some(r) == <<r>>

relative_size_report_decimal_places == 2

RECURSIVE Pow10(_)
Pow10(k) == IF k = 0 THEN 1 ELSE 10 * Pow10(k - 1)

\* Python's round(100 * numerator / denominator, places) for denominator > 0, as an
\* integer count of 10^-places.  round() rounds the double to the nearest value with
\* `places` decimals, ties to even; for denominators below 4000 a tie of the exact
\* quotient is a multiple of 1/8 and so is held exactly by the double.
RoundPercent(numerator, denominator, places) ==
    LET scaled == 100 * Pow10(places) * numerator
        q == scaled \div denominator
        r == scaled % denominator
    IN  IF 2 * r < denominator THEN q
        ELSE IF 2 * r > denominator THEN q + 1
        ELSE IF q % 2 = 0 THEN q ELSE q + 1

\* Truth value Python gives a size datum in `if size_data:`.
Truthy(v) == v # None /\ v # Num(0)

-----------------------------------------------------------------------------
(* Compilation output and its parsing *)

\* Digit strings the model writes into size lines: "0", "7", "07", "32".
NumStrings == {<<0>>, <<7>>, <<0, 7>>, <<3, 2>>}

SizePhrases == {"Sketch uses", "Global variables use"}

\* "Sketch uses <used> bytes (..%) of program storage space.[ Maximum is <maximum> bytes.]"
\* "Global variables use <used> bytes (..%) of dynamic memory[... Maximum is <maximum> bytes.]"
SizeLines == [phrase : SizePhrases, used : NumStrings, maximum : NumStrings \cup {<<>>}]
\* "<file>:<line>:<col>: warning: ..." and any other line
WarningLine == [phrase |-> "warning", used |-> <<>>, maximum |-> <<>>]
OtherLine == [phrase |-> "other", used |-> <<>>, maximum |-> <<>>]
Lines == SizeLines \cup {WarningLine, OtherLine}

SeqsUpTo(S, n) == UNION {[1..k -> S] : k \in 0..n}

\* int() of a string of decimal digits
RECURSIVE int(_)
int(digits) ==
    IF Len(digits) = 0 THEN 0
    ELSE 10 * int(SubSeq(digits, 1, Len(digits) - 1)) + digits[Len(digits)]

memory_types ==
    << [name |-> "flash", regex |-> "Sketch uses"],
       [name |-> "RAM for global variables", regex |-> "Global variables use"] >>

\* Whether the regular expression of (memory_type, size_data_type) matches in the line.
RegexMatches(line, memory_type, size_data_type) ==
    /\ line.phrase = memory_type.regex
    /\ size_data_type = "maximum" => line.maximum # <<>>

\* re.search: the first match in the output; None when there is none.
get_size_data_from_output(compilation_output, memory_type, size_data_type) ==
    LET hits == {i \in 1..Len(compilation_output) :
                    RegexMatches(compilation_output[i], memory_type, size_data_type)}
    IN  IF hits = {} THEN None
        ELSE LET first == CHOOSE i \in hits : \A j \in hits : i <= j
                 line == compilation_output[first]
             IN  Num(int(IF size_data_type = "absolute" THEN line.used ELSE line.maximum))

\* Mutant of SizeOfMemoryType: a figure that cannot be determined is reported as 0.
SizeOfMemoryType_ZeroForMissing(result, memory_type) ==
    LET default == [name |-> memory_type.name,
                    absolute |-> not_applicable_indicator,
                    maximum |-> not_applicable_indicator,
                    relative |-> Num(0)]
        abs == get_size_data_from_output(result.output, memory_type, "absolute")
        max == get_size_data_from_output(result.output, memory_type, "maximum")
    IN  IF result.success /\ Truthy(abs)
        THEN IF Truthy(max)
             THEN [default EXCEPT !.absolute = abs, !.maximum = max,
                       !.relative = Num(RoundPercent(Val(abs), Val(max),
                                                     relative_size_report_decimal_places))]
             ELSE [default EXCEPT !.absolute = abs]
        ELSE default

\* The size entry of one memory type (body of the loop of get_sizes_from_output).
SizeOfMemoryType(result, memory_type) ==
    LET default == [name |-> memory_type.name,
                    absolute |-> not_applicable_indicator,
                    maximum |-> not_applicable_indicator,
                    relative |-> not_applicable_indicator]
        abs == get_size_data_from_output(result.output, memory_type, "absolute")
        max == get_size_data_from_output(result.output, memory_type, "maximum")
    IN  IF result.success /\ Truthy(abs)
        THEN IF Truthy(max)
             THEN [default EXCEPT !.absolute = abs, !.maximum = max,
                       !.relative = Num(RoundPercent(Val(abs), Val(max),
                                                     relative_size_report_decimal_places))]
             ELSE [default EXCEPT !.absolute = abs]
        ELSE default

get_sizes_from_output(result) ==
    [i \in 1..Len(memory_types) |-> SizeOfMemoryType(result, memory_types[i])]

\* Mutant of get_warning_count_from_output: the warnings are counted after a failure too.
get_warning_count_from_output_AlwaysCount(result) ==
    Num(Cardinality({i \in 1..Len(result.output) : result.output[i].phrase = "warning"}))

\* len(re.findall(":[0-9]+:[0-9]+: warning:", output)) on success, "N/A" otherwise
get_warning_count_from_output(result) ==
    IF result.success
    THEN Num(Cardinality({i \in 1..Len(result.output) : result.output[i].phrase = "warning"}))
    ELSE not_applicable_indicator

CompilationOutputs == SeqsUpTo(Lines, MaxLines)

-----------------------------------------------------------------------------
(* Compilation result and sketch report *)

ReturnCodes == {0, 1}

\* Mutant of run_command: the process never ends on a non-zero status.
run_command_NeverExit(returncode, exit_on_failure) ==
    [returncode |-> returncode, exit |-> None]

\* run_command: the CompletedProcess it returns and, when it ends the process instead,
\* the status of sys.exit
run_command(returncode, exit_on_failure) ==
    [returncode |-> returncode,
     exit |-> IF returncode # 0 /\ exit_on_failure THEN Some(returncode) ELSE None]

\* class CompilationResult of compile_sketch: success is the exit status alone.
CompilationResult(sketch_path, data) ==
    [sketch |-> sketch_path, success |-> data.returncode = 0, output |-> data.stdout]

\* Mutant of do_deltas_report: the warning count is not considered.
do_deltas_report_SizesOnly(result, current_sizes, current_warnings) ==
    /\ enable_deltas_report
    /\ result.success
    /\ \E i \in 1..Len(current_sizes) : current_sizes[i].absolute # not_applicable_indicator

\* Mutant of do_deltas_report: enable_deltas_report is not considered.
do_deltas_report_IgnoreFlag(result, current_sizes, current_warnings) ==
    /\ result.success
    /\ \/ \E i \in 1..Len(current_sizes) : current_sizes[i].absolute # not_applicable_indicator
       \/ (current_warnings # None /\ current_warnings # not_applicable_indicator)

do_deltas_report(result, current_sizes, current_warnings) ==
    /\ enable_deltas_report
    /\ result.success
    /\ \/ \E i \in 1..Len(current_sizes) : current_sizes[i].absolute # not_applicable_indicator
       \/ (current_warnings # None /\ current_warnings # not_applicable_indicator)

\* Mutant of get_size_report: the relative delta is the difference of the two rounded
\* percentages.
get_size_report_SubtractRelative(current_size, previous_size) ==
    LET report == [name |-> current_size.name,
                   maximum |-> current_size.maximum,
                   current |-> [absolute |-> current_size.absolute,
                                relative |-> current_size.relative]]
    IN  IF previous_size = None THEN report
        ELSE LET previous == previous_size[1]
                 absolute_delta ==
                     IF \/ current_size.absolute = not_applicable_indicator
                        \/ previous.absolute = not_applicable_indicator
                     THEN not_applicable_indicator
                     ELSE Num(Val(current_size.absolute) - Val(previous.absolute))
                 relative_delta ==
                     IF \/ current_size.relative = not_applicable_indicator
                        \/ previous.relative = not_applicable_indicator
                     THEN not_applicable_indicator
                     ELSE Num(Val(current_size.relative) - Val(previous.relative))
             IN  report @@ [previous |-> [absolute |-> previous.absolute,
                                          relative |-> previous.relative],
                            delta |-> [absolute |-> absolute_delta,
                                       relative |-> relative_delta]]

\* previous_size is None or Some(size)
get_size_report(current_size, previous_size) ==
    LET report == [name |-> current_size.name,
                   maximum |-> current_size.maximum,
                   current |-> [absolute |-> current_size.absolute,
                                relative |-> current_size.relative]]
    IN  IF previous_size = None THEN report
        ELSE LET previous == previous_size[1]
                 absolute_delta ==
                     IF \/ current_size.absolute = not_applicable_indicator
                        \/ previous.absolute = not_applicable_indicator
                     THEN not_applicable_indicator
                     ELSE Num(Val(current_size.absolute) - Val(previous.absolute))
                 relative_delta ==
                     IF \/ absolute_delta = not_applicable_indicator
                        \/ report.maximum = not_applicable_indicator
                     THEN not_applicable_indicator
                     ELSE Num(RoundPercent(Val(absolute_delta), Val(report.maximum),
                                           relative_size_report_decimal_places))
             IN  report @@ [previous |-> [absolute |-> previous.absolute,
                                          relative |-> previous.relative],
                            delta |-> [absolute |-> absolute_delta,
                                       relative |-> relative_delta]]

\* previous_sizes is None or a list as long as current_sizes
get_sizes_report(current_sizes, previous_sizes) ==
    [i \in 1..Len(current_sizes) |->
        get_size_report(current_sizes[i],
                        IF previous_sizes = None THEN None ELSE Some(previous_sizes[i]))]

get_warnings_report(current_warnings, previous_warnings) ==
    LET report == [current |-> [absolute |-> current_warnings]]
    IN  IF previous_warnings = None THEN report
        ELSE LET warnings_delta ==
                     IF \/ current_warnings = not_applicable_indicator
                        \/ previous_warnings = not_applicable_indicator
                     THEN not_applicable_indicator
                     ELSE Num(Val(current_warnings) - Val(previous_warnings))
             IN  report @@ [previous |-> [absolute |-> previous_warnings],
                            delta |-> [absolute |-> warnings_delta]]

\* current_warning_count of get_sketch_report
WarningCountOf(result) ==
    IF enable_warnings_report THEN get_warning_count_from_output(result) ELSE None

\* The dictionary get_sketch_report returns; previous is None (single pass) or
\* Some(result of the baseline compilation).
SketchReport(result, previous) ==
    LET current_sizes == get_sizes_from_output(result)
        current_warning_count == WarningCountOf(result)
        previous_sizes == IF previous = None THEN None ELSE get_sizes_from_output(previous[1])
        previous_warning_count == IF previous = None THEN None ELSE WarningCountOf(previous[1])
        report == [name |-> result.sketch,
                   compilation_success |-> result.success,
                   sizes |-> get_sizes_report(current_sizes, previous_sizes)]
    IN  IF enable_warnings_report
        THEN report @@ [warnings |-> get_warnings_report(current_warning_count,
                                                         previous_warning_count)]
        ELSE report

-----------------------------------------------------------------------------
(* Summaries and the sketches report *)

\* A dictionary with the key set to the value
WithKey(dictionary, key, value) == (key :> value) @@ dictionary

\* The delta band a summary starts with: minimum and maximum are the report's deltas.
InitialBand(delta) ==
    [absolute |-> [minimum |-> delta.absolute, maximum |-> delta.absolute],
     relative |-> [minimum |-> delta.relative, maximum |-> delta.relative]]

\* Mutant of WidenedBand: the band is replaced by the deltas of the report.
WidenedBand_Replaced(band, delta) == InitialBand(delta)

\* Mutant of WidenedBand: the relative bounds are those of the report.
WidenedBand_RelativeOfReport(band, delta) ==
    LET lower == Val(delta.absolute) < Val(band.absolute.minimum)
        higher == Val(delta.absolute) > Val(band.absolute.maximum)
    IN  [absolute |->
            [minimum |-> IF lower THEN delta.absolute ELSE band.absolute.minimum,
             maximum |-> IF higher THEN delta.absolute ELSE band.absolute.maximum],
         relative |-> [minimum |-> delta.relative, maximum |-> delta.relative]]

\* Mutant of WidenedBand: the maximum of the band is never raised.
WidenedBand_KeepMaximum(band, delta) ==
    LET lower == Val(delta.absolute) < Val(band.absolute.minimum)
    IN  [absolute |->
            [minimum |-> IF lower THEN delta.absolute ELSE band.absolute.minimum,
             maximum |-> band.absolute.maximum],
         relative |->
            [minimum |-> IF lower THEN delta.relative ELSE band.relative.minimum,
             maximum |-> band.relative.maximum]]

\* The band after a report with a numeric absolute delta
WidenedBand(band, delta) ==
    LET lower == Val(delta.absolute) < Val(band.absolute.minimum)
        higher == Val(delta.absolute) > Val(band.absolute.maximum)
    IN  [absolute |->
            [minimum |-> IF lower THEN delta.absolute ELSE band.absolute.minimum,
             maximum |-> IF higher THEN delta.absolute ELSE band.absolute.maximum],
         relative |->
            [minimum |-> IF lower THEN delta.relative ELSE band.relative.minimum,
             maximum |-> IF higher THEN delta.relative ELSE band.relative.maximum]]

\* One iteration of the inner loop of get_sizes_summary_report
add_size_report(sizes_summary_report, entry) ==
    LET index_list == {i \in DOMAIN sizes_summary_report :
                          sizes_summary_report[i].name = entry.name}
        summary == IF index_list = {}
                   THEN Append(sizes_summary_report, [name |-> entry.name])
                   ELSE sizes_summary_report
        index == IF index_list = {} THEN Len(summary)
                 ELSE CHOOSE i \in index_list : \A j \in index_list : i <= j
        with_maximum ==
            IF \/ "maximum" \notin DOMAIN summary[index]
               \/ summary[index].maximum = not_applicable_indicator
            THEN WithKey(summary[index], "maximum", entry.maximum)
            ELSE summary[index]
        with_delta ==
            IF "delta" \notin DOMAIN entry THEN with_maximum
            ELSE IF \/ "delta" \notin DOMAIN with_maximum
                    \/ with_maximum.delta.absolute.minimum = not_applicable_indicator
            THEN WithKey(with_maximum, "delta", InitialBand(entry.delta))
            ELSE IF entry.delta.absolute # not_applicable_indicator
            THEN WithKey(with_maximum, "delta",
                         WidenedBand(with_maximum.delta, entry.delta))
            ELSE with_maximum
    IN  [summary EXCEPT ![index] = with_delta]

RECURSIVE add_size_reports(_, _)
add_size_reports(sizes_summary_report, size_reports) ==
    IF size_reports = <<>> THEN sizes_summary_report
    ELSE add_size_reports(add_size_report(sizes_summary_report, Head(size_reports)),
                          Tail(size_reports))

RECURSIVE sizes_summary_from(_, _)
sizes_summary_from(sizes_summary_report, sketch_reports) ==
    IF sketch_reports = <<>> THEN sizes_summary_report
    ELSE sizes_summary_from(add_size_reports(sizes_summary_report,
                                             Head(sketch_reports).sizes),
                            Tail(sketch_reports))

get_sizes_summary_report(sketch_reports) == sizes_summary_from(<<>>, sketch_reports)

\* Mutant of add_warnings_report: the bounds are those of the first report with a delta.
add_warnings_report_FirstOnly(band, sketch_report) ==
    IF /\ "warnings" \in DOMAIN sketch_report
       /\ "delta" \in DOMAIN sketch_report.warnings
       /\ band.minimum = None
    THEN [minimum |-> sketch_report.warnings.delta.absolute,
          maximum |-> sketch_report.warnings.delta.absolute]
    ELSE band

\* Mutant of add_warnings_report: a delta that is not applicable replaces the bounds.
add_warnings_report_NotApplicableDisplaces(band, sketch_report) ==
    IF "warnings" \in DOMAIN sketch_report /\ "delta" \in DOMAIN sketch_report.warnings
    THEN LET sketch_report_delta == sketch_report.warnings.delta.absolute
         IN  [minimum |->
                 IF \/ band.minimum = None \/ band.minimum = not_applicable_indicator
                    \/ sketch_report_delta = not_applicable_indicator
                 THEN sketch_report_delta
                 ELSE IF Val(band.minimum) > Val(sketch_report_delta)
                 THEN sketch_report_delta
                 ELSE band.minimum,
              maximum |->
                 IF \/ band.maximum = None \/ band.maximum = not_applicable_indicator
                    \/ sketch_report_delta = not_applicable_indicator
                 THEN sketch_report_delta
                 ELSE IF Val(band.maximum) < Val(sketch_report_delta)
                 THEN sketch_report_delta
                 ELSE band.maximum]
    ELSE band

\* One iteration of the loop of get_warnings_summary_report; band holds
\* summary_report_minimum and summary_report_maximum.
add_warnings_report(band, sketch_report) ==
    IF "warnings" \in DOMAIN sketch_report /\ "delta" \in DOMAIN sketch_report.warnings
    THEN LET sketch_report_delta == sketch_report.warnings.delta.absolute
         IN  [minimum |->
                 IF band.minimum = None \/ band.minimum = not_applicable_indicator
                 THEN sketch_report_delta
                 ELSE IF /\ sketch_report_delta # not_applicable_indicator
                         /\ Val(band.minimum) > Val(sketch_report_delta)
                 THEN sketch_report_delta
                 ELSE band.minimum,
              maximum |->
                 IF band.maximum = None \/ band.maximum = not_applicable_indicator
                 THEN sketch_report_delta
                 ELSE IF /\ sketch_report_delta # not_applicable_indicator
                         /\ Val(band.maximum) < Val(sketch_report_delta)
                 THEN sketch_report_delta
                 ELSE band.maximum]
    ELSE band

RECURSIVE warnings_band_from(_, _)
warnings_band_from(band, sketch_reports) ==
    IF sketch_reports = <<>> THEN band
    ELSE warnings_band_from(add_warnings_report(band, Head(sketch_reports)),
                            Tail(sketch_reports))

\* The empty dictionary is held as None.
get_warnings_summary_report(sketch_reports) ==
    LET band == warnings_band_from([minimum |-> None, maximum |-> None], sketch_reports)
    IN  IF band.minimum # None
        THEN Some([delta |-> [absolute |-> [minimum |-> band.minimum,
                                            maximum |-> band.maximum]]])
        ELSE None

\* The boards list of the dictionary get_sketches_report returns (one board); the commit
\* hash and URL beside it are not part of the model.
get_sketches_report(sketch_reports) ==
    LET board == [board |-> "fqbn", sketches |-> sketch_reports]
        sizes_summary_report == get_sizes_summary_report(sketch_reports)
        with_sizes == IF sizes_summary_report # <<>>
                      THEN WithKey(board, "sizes", sizes_summary_report)
                      ELSE board
        warnings_summary_report == get_warnings_summary_report(sketch_reports)
        with_warnings == IF warnings_summary_report # None
                         THEN WithKey(with_sizes, "warnings", warnings_summary_report[1])
                         ELSE with_sizes
    IN  [boards |-> <<with_warnings>>]

-----------------------------------------------------------------------------
(* Dependency declarations and sort_dependency_list *)

\* A declaration is a dictionary from the keys below to values; a URL is a string held
\* as the sequence of its characters.
dependency_name_key == "name"
dependency_source_path_key == "source-path"
dependency_source_url_key == "source-url"

\* str.rstrip(chars) for a single character
RECURSIVE rstrip(_, _)
rstrip(string, char) ==
    IF string # <<>> /\ string[Len(string)] = char
    THEN rstrip(SubSeq(string, 1, Len(string) - 1), char)
    ELSE string

\* str.endswith(suffix)
endswith(string, suffix) ==
    /\ Len(string) >= Len(suffix)
    /\ SubSeq(string, Len(string) - Len(suffix) + 1, Len(string)) = suffix

\* str.startswith(prefix)
startswith(string, prefix) ==
    /\ Len(string) >= Len(prefix)
    /\ SubSeq(string, 1, Len(prefix)) = prefix

\* re.match(pattern, string) is not None, for a pattern given as a sequence of tokens:
\* ".*" is any run of characters other than a line feed, "." is any one character
\* other than a line feed (no DOTALL flag), any other token is itself.
\* The match starts at the start of the string and need not reach its end.
RECURSIVE re_match(_, _)
re_match(pattern, string) ==
    IF pattern = <<>> THEN TRUE
    ELSE IF Head(pattern) = ".*"
    THEN \E k \in 0..Len(string) :
            /\ \A i \in 1..k : string[i] # "\n"
            /\ re_match(Tail(pattern), SubSeq(string, k + 1, Len(string)))
    ELSE IF string = <<>> THEN FALSE
    ELSE /\ (Head(pattern) = "." /\ Head(string) # "\n") \/ Head(pattern) = Head(string)
         /\ re_match(Tail(pattern), Tail(string))

\* ".git"
GitSuffix == <<".", "g", "i", "t">>

\* "git://"
GitPrefix == <<"g", "i", "t", ":", "/", "/">>

\* ".*/package_.*index.json"
PackageIndexPattern ==
    <<".*", "/", "p", "a", "c", "k", "a", "g", "e", "_", ".*",
      "i", "n", "d", "e", "x", ".", "j", "s", "o", "n">>

\* class Dependencies: the four lists, empty
Dependencies == [manager |-> <<>>, path |-> <<>>, repository |-> <<>>, download |-> <<>>]

\* Mutant of source_type: source-path is looked at before source-url.
source_type_PathFirst(dependency) ==
    IF dependency_source_path_key \in DOMAIN dependency THEN "path"
    ELSE IF dependency_source_url_key \in DOMAIN dependency
    THEN LET url == dependency[dependency_source_url_key]
         IN  IF endswith(rstrip(url, "/"), GitSuffix) \/ startswith(url, GitPrefix)
             THEN "repository"
             ELSE IF re_match(PackageIndexPattern, url) THEN "manager"
             ELSE "download"
    ELSE "manager"

\* The list of sorted_dependencies a declaration that is not None is appended to.
source_type(dependency) ==
    IF dependency_source_url_key \in DOMAIN dependency
    THEN LET url == dependency[dependency_source_url_key]
         IN  IF endswith(rstrip(url, "/"), GitSuffix) \/ startswith(url, GitPrefix)
             THEN "repository"
             ELSE IF re_match(PackageIndexPattern, url) THEN "manager"
             ELSE "download"
    ELSE IF dependency_source_path_key \in DOMAIN dependency THEN "path"
    ELSE "manager"

\* Mutant of sort_dependency: a declaration without any key is skipped like None.
sort_dependency_SkipEmpty(sorted, dependency) ==
    IF dependency = None \/ DOMAIN dependency[1] = {} THEN sorted
    ELSE [sorted EXCEPT ![source_type(dependency[1])] = Append(@, dependency[1])]

\* One iteration of the loop of sort_dependency_list; dependency is None or
\* Some(declaration).
sort_dependency(sorted, dependency) ==
    IF dependency = None THEN sorted
    ELSE [sorted EXCEPT ![source_type(dependency[1])] = Append(@, dependency[1])]

RECURSIVE sort_dependencies_from(_, _)
sort_dependencies_from(sorted, dependencies) ==
    IF dependencies = <<>> THEN sorted
    ELSE sort_dependencies_from(sort_dependency(sorted, Head(dependencies)),
                                Tail(dependencies))

sort_dependency_list(dependencies) == sort_dependencies_from(Dependencies, dependencies)

-----------------------------------------------------------------------------
(* Arduino CLI interface and get_platform_installation_path *)

\* A platform name or identifier is a string held as the sequence of its characters. A
\* path is the sequence of its components. An Arduino CLI version is "latest", held as
\* <<"latest">>, or a semantic version <<major, minor, patch>>.

\* pathlib.Path.home().joinpath("Arduino").joinpath("hardware")
user_platforms_path == <<"home", "Arduino", "hardware">>

\* pathlib.Path.home().joinpath(".arduino15").joinpath("packages")
board_manager_platforms_path == <<"home", ".arduino15", "packages">>

\* pathlib.Path.joinpath
joinpath(path, components) == path \o components

\* str.split(sep)[0]
RECURSIVE split_first(_, _)
split_first(string, sep) ==
    IF string = <<>> \/ Head(string) = sep THEN <<>>
    ELSE <<Head(string)>> \o split_first(Tail(string), sep)

\* str.rsplit(sep, maxsplit=1)[1], for a string that holds the separator
RECURSIVE rsplit_last(_, _)
rsplit_last(string, sep) ==
    IF string[Len(string)] = sep THEN <<>>
    ELSE rsplit_last(SubSeq(string, 1, Len(string) - 1), sep) \o <<string[Len(string)]>>

\* semver.VersionInfo.is_valid
semver_is_valid(version) == Len(version) = 3

\* semver.Version.compare: -1, 0 or 1
semver_compare(version, other) ==
    LET differing == {i \in 1..3 : version[i] # other[i]}
    IN  IF differing = {} THEN 0
        ELSE LET first == CHOOSE i \in differing : \A j \in differing : i <= j
             IN  IF version[first] < other[first] THEN -1 ELSE 1

\* semver.Version.match, for a constraint held as [op, version]
semver_match(version, constraint) ==
    LET comparison == semver_compare(version, constraint.version)
    IN  CASE constraint.op = ">=" -> comparison >= 0
          [] constraint.op = "<=" -> comparison <= 0
          [] constraint.op = ">" -> comparison > 0
          [] constraint.op = "<" -> comparison < 0

\* key_translations["core list"]
key_translations ==
    [id |->
        << [constraints |-> << [op |-> ">=", version |-> <<0, 0, 0>>],
                               [op |-> "<=", version |-> <<0, 17, 0>>] >>,
            name |-> "ID"],
           [constraints |-> << [op |-> ">", version |-> <<0, 17, 0>>] >>,
            name |-> "id"] >>,
     installed_version |->
        << [constraints |-> << [op |-> ">=", version |-> <<0, 0, 0>>],
                               [op |-> "<=", version |-> <<0, 17, 0>>] >>,
            name |-> "Installed"],
           [constraints |-> << [op |-> ">", version |-> <<0, 17, 0>>],
                               [op |-> "<", version |-> <<1, 0, 0>>] >>,
            name |-> "installed"],
           [constraints |-> << [op |-> ">=", version |-> <<1, 0, 0>>] >>,
            name |-> "installed_version"] >>]

\* cli_json_key("core list", key_name) with the Arduino CLI version in use
cli_json_key(cli_version, key_name) ==
    IF ~semver_is_valid(cli_version) THEN key_name
    ELSE LET translations == key_translations[key_name]
             matching == {t \in DOMAIN translations :
                            \A c \in DOMAIN translations[t].constraints :
                                semver_match(cli_version, translations[t].constraints[c])}
         IN  translations[CHOOSE t \in matching : \A u \in matching : t <= u].name

\* data is the parsed output of arduino-cli core list --format json
cli_core_list_platform_list(cli_version, data) ==
    IF \/ ~semver_is_valid(cli_version)
       \/ semver_compare(cli_version, <<1, 0, 0>>) >= 0
    THEN IF data.platforms = None THEN <<>> ELSE data.platforms[1]
    ELSE data

\* Mutant of get_platform_installation_path: the scan does not stop at the first
\* installed platform with the identifier.
get_platform_installation_path_LastMatch(platform, cli_version, command_data) ==
    LET platform_vendor == split_first(platform[dependency_name_key], ":")
        platform_architecture == rsplit_last(platform[dependency_name_key], ":")
        installed_platform_list == cli_core_list_platform_list(cli_version, command_data)
        matching == {i \in DOMAIN installed_platform_list :
                        installed_platform_list[i][cli_json_key(cli_version, "id")]
                            = platform[dependency_name_key]}
    IN  IF matching = {}
        THEN [path |-> joinpath(user_platforms_path,
                                <<platform_vendor, platform_architecture>>),
              is_overwrite |-> FALSE]
        ELSE LET installed_platform ==
                     installed_platform_list[CHOOSE i \in matching :
                                                \A j \in matching : j <= i]
             IN  [path |-> joinpath(board_manager_platforms_path,
                                    <<platform_vendor, "hardware", platform_architecture,
                                      installed_platform[
                                          cli_json_key(cli_version, "installed_version")]>>),
                  is_overwrite |-> TRUE]

\* Mutant of get_platform_installation_path: the default of the sketchbook is kept
\* whatever the package manager lists.
get_platform_installation_path_Sketchbook(platform, cli_version, command_data) ==
    [path |-> joinpath(user_platforms_path,
                       <<split_first(platform[dependency_name_key], ":"),
                         rsplit_last(platform[dependency_name_key], ":")>>),
     is_overwrite |-> FALSE]

\* command_data is the parsed output of the core list command
get_platform_installation_path(platform, cli_version, command_data) ==
    LET platform_vendor == split_first(platform[dependency_name_key], ":")
        platform_architecture == rsplit_last(platform[dependency_name_key], ":")
        installed_platform_list == cli_core_list_platform_list(cli_version, command_data)
        matching == {i \in DOMAIN installed_platform_list :
                        installed_platform_list[i][cli_json_key(cli_version, "id")]
                            = platform[dependency_name_key]}
    IN  IF matching = {}
        THEN [path |-> joinpath(user_platforms_path,
                                <<platform_vendor, platform_architecture>>),
              is_overwrite |-> FALSE]
        ELSE LET installed_platform ==
                     installed_platform_list[CHOOSE i \in matching :
                                                \A j \in matching : i <= j]
             IN  [path |-> joinpath(board_manager_platforms_path,
                                    <<platform_vendor, "hardware", platform_architecture,
                                      installed_platform[
                                          cli_json_key(cli_version, "installed_version")]>>),
                  is_overwrite |-> TRUE]

-----------------------------------------------------------------------------
(* install_platforms: the platforms of the package manager and of the sketchbook *)

dependency_version_key == "version"
latest_release_indicator == "latest"

\* str.split(sep)
RECURSIVE split(_, _)
split(string, sep) ==
    IF \A i \in DOMAIN string : string[i] # sep THEN <<string>>
    ELSE <<split_first(string, sep)>>
            \o split(SubSeq(string, Len(split_first(string, sep)) + 2, Len(string)), sep)

\* additional_url is None or Some(url)
get_fqbn_platform_dependency(fqbn, additional_url) ==
    LET fqbn_component_list == split(fqbn, ":")
        fqbn_platform_dependency ==
            dependency_name_key :> (fqbn_component_list[1] \o <<":">> \o fqbn_component_list[2])
    IN  IF additional_url # None
        THEN WithKey(fqbn_platform_dependency, dependency_source_url_key, additional_url[1])
        ELSE fqbn_platform_dependency

\* platforms is None (the input is "") or Some(list the YAML document holds)
platform_list_of(platforms, fqbn, additional_url) ==
    IF platforms = None
    THEN [Dependencies EXCEPT
             !.manager = Append(@, get_fqbn_platform_dependency(fqbn, additional_url))]
    ELSE sort_dependency_list(platforms[1])

\* Mutant of InstallStages: the platforms of local paths are installed first.
InstallStages_PathFirst == <<"path", "manager", "repository", "download">>

\* The stages of install_platforms, in the order of its if statements
InstallStages == <<"manager", "path", "repository", "download">>

\* The first stage from position k on whose list is not empty; "installed" after the last
RECURSIVE stage_from(_, _)
stage_from(platforms, k) ==
    IF k > Len(InstallStages) THEN "installed"
    ELSE IF Len(platforms[InstallStages[k]]) > 0 THEN InstallStages[k]
    ELSE stage_from(platforms, k + 1)

StageIndex(stage) == CHOOSE k \in DOMAIN InstallStages : InstallStages[k] = stage

\* Where install_platforms goes after the platform at index i of the stage's list
after_platform(platforms, stage, i) ==
    IF i < Len(platforms[stage]) THEN stage
    ELSE stage_from(platforms, StageIndex(stage) + 1)

\* run_command for a sequence of commands with the exit statuses they get: the log of
\* the commands run and the status the process exits with (0: all succeeded).
RECURSIVE run_commands(_, _)
run_commands(commands, returncodes) ==
    IF commands = <<>> THEN [log |-> <<>>, exit |-> 0]
    ELSE LET command_data == run_command(Head(returncodes), TRUE)
             event == [op |-> "command", command |-> Head(commands),
                       returncode |-> command_data.returncode, exit_on_failure |-> TRUE]
         IN  IF command_data.exit # None
             THEN [log |-> <<event>>, exit |-> command_data.exit[1]]
             ELSE LET rest == run_commands(Tail(commands), Tail(returncodes))
                  IN  [log |-> <<event>> \o rest.log, exit |-> rest.exit]

\* The version arduino-cli core install <name>[@<version>] installs: the one asked for,
\* else the newest release.
NewestRelease == "2.0.0"
manager_version(platform) ==
    IF /\ dependency_version_key \in DOMAIN platform
       /\ platform[dependency_version_key] # latest_release_indicator
    THEN platform[dependency_version_key]
    ELSE NewestRelease

\* Where the package manager keeps the platform
manager_path(id, version) ==
    joinpath(board_manager_platforms_path,
             <<split_first(id, ":"), "hardware", rsplit_last(id, ":"), version>>)

\* The package manager's list after core install of the platform: one version of a
\* platform is installed at a time.
core_install(installed, platform) ==
    LET id == platform[dependency_name_key]
        entry == [id |-> id, version |-> manager_version(platform)]
        at == {i \in DOMAIN installed : installed[i].id = id}
    IN  IF at = {} THEN Append(installed, entry)
        ELSE [i \in DOMAIN installed |-> IF i \in at THEN entry ELSE installed[i]]

\* The installations on disk after core install: the platform's folder of the package
\* manager holds the version installed.
core_install_files(files, installed, platform) ==
    LET id == platform[dependency_name_key]
        old == {f \in files : \E i \in DOMAIN installed :
                   installed[i].id = id /\ f.path = manager_path(id, installed[i].version)}
    IN  (files \ old) \cup {[path |-> manager_path(id, manager_version(platform)),
                             platform |-> id, source |-> "manager"]}

\* install_from_path: None when the destination exists and force is not set (the
\* process exits), else Some(installations on disk afterwards).
install_from_path(files, destination_path, force, platform, source) ==
    LET existing == {f \in files : f.path = destination_path}
    IN  IF existing # {} /\ ~force THEN None
        ELSE Some((files \ existing)
                    \cup {[path |-> destination_path,
                           platform |-> platform[dependency_name_key],
                           source |-> source]})

-----------------------------------------------------------------------------
(* find_sketches and path_is_sketch over a file tree.
   A path is the sequence of its components below the workspace, a component a
   sequence of characters. A tree is the set of its files and the set of its
   folders; the workspace itself, the empty path, is always a folder. *)

sketch_extensions == { <<".", "i", "n", "o">>, <<".", "p", "d", "e">> }

\* The characters of the names, in the order of their code points
CodePointOrder == <<".", "d", "e", "i", "n", "o", "p", "t", "x">>

ord(char) == CHOOSE k \in DOMAIN CodePointOrder : CodePointOrder[k] = char

\* str < str: the code points of the first position that differs decide
RECURSIVE name_less(_, _)
name_less(a, b) ==
    IF b = <<>> THEN FALSE
    ELSE IF a = <<>> THEN TRUE
    ELSE IF ord(Head(a)) < ord(Head(b)) THEN TRUE
    ELSE IF ord(Head(b)) < ord(Head(a)) THEN FALSE
    ELSE name_less(Tail(a), Tail(b))

\* pathlib.PurePath < pathlib.PurePath: the lists of components are compared
RECURSIVE path_less(_, _)
path_less(a, b) ==
    IF b = <<>> THEN FALSE
    ELSE IF a = <<>> THEN TRUE
    ELSE IF name_less(Head(a), Head(b)) THEN TRUE
    ELSE IF name_less(Head(b), Head(a)) THEN FALSE
    ELSE path_less(Tail(a), Tail(b))

\* Mutant of sorted: descending order.
RECURSIVE sorted_paths_Descending(_)
sorted_paths_Descending(paths) ==
    IF paths = {} THEN <<>>
    ELSE LET last == CHOOSE p \in paths : \A q \in paths : ~path_less(p, q)
         IN  <<last>> \o sorted_paths_Descending(paths \ {last})

\* sorted_paths(paths)
RECURSIVE sorted_paths(_)
sorted_paths(paths) ==
    IF paths = {} THEN <<>>
    ELSE LET first == CHOOSE p \in paths : \A q \in paths : ~path_less(q, p)
         IN  <<first>> \o sorted_paths(paths \ {first})

\* pathlib.PurePath.suffix of a path with the given last component
suffix(name) ==
    LET dots == {i \in DOMAIN name : name[i] = "."}
    IN  IF dots = {} THEN <<>>
        ELSE LET i == CHOOSE j \in dots : \A k \in dots : k <= j
             IN  IF 1 < i /\ i < Len(name) THEN SubSeq(name, i, Len(name)) ELSE <<>>

parent(path) == SubSeq(path, 1, Len(path) - 1)

exists(tree, path) == path = <<>> \/ path \in tree.files \/ path \in tree.dirs

is_file(tree, path) == path \in tree.files

is_dir(tree, path) == path = <<>> \/ path \in tree.dirs

\* path.glob(pattern): the entries of the folder whose name matches "*" + extension
glob(tree, path, extension) ==
    IF ~is_dir(tree, path) THEN {}
    ELSE {entry \in tree.files \cup tree.dirs :
             /\ entry # <<>>
             /\ parent(entry) = path
             /\ endswith(entry[Len(entry)], extension)}

\* path.rglob("*"): everything below the folder
rglob(tree, path) ==
    IF ~is_dir(tree, path) THEN {}
    ELSE {entry \in tree.files \cup tree.dirs :
             Len(entry) > Len(path) /\ SubSeq(entry, 1, Len(path)) = path}

path_is_sketch(tree, path) ==
    IF is_file(tree, path)
    THEN suffix(path[Len(path)]) \in sketch_extensions
    ELSE \E sketch_extension \in sketch_extensions :
            glob(tree, path, sketch_extension) # {}

\* One round of the loop of find_sketches: None when the process exits, else
\* Some(sketches the path adds to the list).
sketch_path_sketch_list(tree, sketch_path) ==
    LET is_sketch(path) == is_dir(tree, path) /\ path_is_sketch(tree, path)
    IN  IF ~exists(tree, sketch_path) THEN None
        ELSE IF is_file(tree, sketch_path)
        THEN IF path_is_sketch(tree, sketch_path) THEN Some(<<parent(sketch_path)>>)
             ELSE None
        ELSE LET found == (IF path_is_sketch(tree, sketch_path)
                           THEN <<sketch_path>> ELSE <<>>)
                             \o SelectSeq(sorted_paths(rglob(tree, sketch_path)), is_sketch)
             IN  IF Len(found) = 0 THEN None ELSE Some(found)

\* Mutant of find_sketches_from: a path without sketches is skipped.
RECURSIVE find_sketches_from_SkipFailing(_, _, _)
find_sketches_from_SkipFailing(tree, sketch_paths, list) ==
    IF sketch_paths = <<>> THEN [exit |-> None, sketch_list |-> list]
    ELSE LET found == sketch_path_sketch_list(tree, Head(sketch_paths))
         IN  find_sketches_from_SkipFailing(
                 tree, Tail(sketch_paths),
                 IF found = None THEN list ELSE list \o found[1])

\* The loop of find_sketches from some round on
RECURSIVE find_sketches_from(_, _, _)
find_sketches_from(tree, sketch_paths, list) ==
    IF sketch_paths = <<>> THEN [exit |-> None, sketch_list |-> list]
    ELSE LET found == sketch_path_sketch_list(tree, Head(sketch_paths))
         IN  IF found = None THEN [exit |-> Some(1), sketch_list |-> list]
             ELSE find_sketches_from(tree, Tail(sketch_paths), list \o found[1])

\* exit is None when find_sketches returns sketch_list, else Some(status of the exit)
find_sketches(tree, sketch_paths) == find_sketches_from(tree, sketch_paths, <<>>)

-----------------------------------------------------------------------------
(* Idle values of the variable groups a specification does not use *)

HeadCommit == "head commit"
BaseRef == "base ref"
NoRef == "no ref"

PipelineIdle ==
    /\ pc = "idle"
    /\ enable_deltas_report = FALSE
    /\ enable_warnings_report = FALSE
    /\ sketch_list = <<>>
    /\ sketch_index = 0
    /\ deltas_base_ref = NoRef
    /\ head = HeadCommit
    /\ original_git_ref = NoRef
    /\ compilation_result = None
    /\ previous_compilation_result = None
    /\ sketch_report_list = <<>>
    /\ all_compilations_successful = TRUE
    /\ report_file = None
    /\ exit_status = None
    /\ history = <<>>

ParseIdle ==
    /\ compilation_data = None
    /\ parse_input = None
    /\ parsed_sizes = None
    /\ parsed_warning_count = None

DeltaIdle ==
    /\ delta_input = None
    /\ size_report = None
    /\ warnings_report = None

SortIdle ==
    /\ dependency_list = <<>>
    /\ sorted_dependencies = None

PathIdle ==
    /\ path_input = None
    /\ platform_installation_path = None

InstallIdle ==
    /\ install_input = None
    /\ platform_list = None
    /\ install_pc = "idle"
    /\ install_index = 0
    /\ installed_platforms = <<>>
    /\ platform_files = {}
    /\ install_history = <<>>
    /\ install_exit_status = None

FindIdle ==
    /\ find_input = None
    /\ find_result = None

SummaryIdle ==
    /\ summary_input = None
    /\ sizes_summary = None
    /\ warnings_summary = None
    /\ sketches_report = None

ConstructIdle ==
    /\ construct_input = None
    /\ verbose = None

ElapsedIdle ==
    /\ diff_time = None
    /\ time_summary = None

ColumnsIdle ==
    /\ heading_row_input = None
    /\ data_column_letters = None

TrendsIdle ==
    /\ spreadsheet = <<>>
    /\ jobs = <<>>
    /\ last_run = None
    /\ runs_done = 0
    /\ conflicting_runs = FALSE

-----------------------------------------------------------------------------
(* __init__: the boolean inputs and the base ref of the deltas *)

\* The uppercase characters among the code points 0 to 255, the characters a string
\* of the model is made of, and what str.lower() makes of each
UppercaseLetters ==
    <<"A", "B", "C", "D", "E", "F", "G", "H", "I", "J", "K", "L", "M", "N", "O", "P", "Q",
      "R", "S", "T", "U", "V", "W", "X", "Y", "Z",
      "À", "Á", "Â", "Ã", "Ä", "Å", "Æ", "Ç", "È", "É", "Ê", "Ë", "Ì", "Í", "Î",
      "Ï", "Ð", "Ñ", "Ò", "Ó", "Ô", "Õ", "Ö", "Ø", "Ù", "Ú", "Û", "Ü", "Ý", "Þ">>
LowercaseLetters ==
    <<"a", "b", "c", "d", "e", "f", "g", "h", "i", "j", "k", "l", "m", "n", "o", "p", "q",
      "r", "s", "t", "u", "v", "w", "x", "y", "z",
      "à", "á", "â", "ã", "ä", "å", "æ", "ç", "è", "é", "ê", "ë", "ì", "í", "î",
      "ï", "ð", "ñ", "ò", "ó", "ô", "õ", "ö", "ø", "ù", "ú", "û", "ü", "ý", "þ">>

\* str.lower(): every other character of these code points is left as it is
lower(string) ==
    [i \in DOMAIN string |->
        IF \E k \in DOMAIN UppercaseLetters : UppercaseLetters[k] = string[i]
        THEN LowercaseLetters[CHOOSE k \in DOMAIN UppercaseLetters :
                                 UppercaseLetters[k] = string[i]]
        ELSE string[i]]

\* Some(TRUE), Some(FALSE), or None for a string that is neither
parse_boolean_input(boolean_input) ==
    IF lower(boolean_input) = <<"t", "r", "u", "e">> THEN Some(TRUE)
    ELSE IF lower(boolean_input) = <<"f", "a", "l", "s", "e">> THEN Some(FALSE)
    ELSE None

PullRequestEvent == "pull_request"
ParentCommitRef == "parent commit"

\* Mutant of get_deltas_base_ref: the parent commit whatever the event.
get_deltas_base_ref_AlwaysParent(event_name, repository_found) == Some(ParentCommitRef)

\* get_deltas_base_ref with get_pull_request_base_ref: Some(ref), or None when the
\* repository is not found and the process exits
get_deltas_base_ref(event_name, repository_found) ==
    IF event_name = PullRequestEvent
    THEN IF repository_found THEN Some(BaseRef) ELSE None
    ELSE Some(ParentCommitRef)

-----------------------------------------------------------------------------
(* Spec: one run of main(): __init__, then compile_sketches() *)

\* Outputs the compile command produces in a run.
Flash(used, maximum) == [phrase |-> "Sketch uses", used |-> used, maximum |-> maximum]
Ram(used, maximum) == [phrase |-> "Global variables use", used |-> used, maximum |-> maximum]
RunOutputs ==
    { <<OtherLine>>,
      <<WarningLine, Flash(<<7>>, <<3, 2>>), Ram(<<7>>, <<>>)>>,
      <<Flash(<<3, 2>>, <<3, 2>>), Ram(<<0, 7>>, <<3, 2>>)>>,
      <<Flash(<<0>>, <<3, 2>>)>> }

\* Values of the boolean inputs: true and false in some case, and a malformed one
BooleanInputs ==
    { <<"t", "r", "u", "e">>, <<"F", "a", "l", "s", "e">>, <<"y", "e", "s">> }

EventNames == {PullRequestEvent, "push"}

\* Before __init__ the flags hold FALSE and the base ref NoRef.
Init ==
    /\ pc = "construct"
    /\ construct_input \in {Some(input) :
                                input \in [verbose : BooleanInputs,
                                           enable_deltas_report : BooleanInputs,
                                           enable_warnings_report : BooleanInputs,
                                           event_name : EventNames]}
    /\ verbose = None
    /\ enable_deltas_report = FALSE
    /\ enable_warnings_report = FALSE
    /\ deltas_base_ref = NoRef
    /\ sketch_list = <<>>
    /\ sketch_index = 0
    /\ head = HeadCommit
    /\ original_git_ref = NoRef
    /\ compilation_result = None
    /\ previous_compilation_result = None
    /\ sketch_report_list = <<>>
    /\ all_compilations_successful = TRUE
    /\ report_file = None
    /\ exit_status = None
    /\ history = <<>>
    /\ ParseIdle /\ DeltaIdle /\ SortIdle /\ PathIdle
    /\ InstallIdle /\ FindIdle /\ SummaryIdle /\ ElapsedIdle
    /\ ColumnsIdle /\ TrendsIdle

otherThanPipeline == <<parseVars, deltaVars, sortVars, pathVars, installVars, findVars,
                       summaryVars, constructVars, elapsedVars, columnsVars, trendsVars>>

\* Mutant of AfterSketch: the loop stops at the first failed compilation.
AfterSketch_StopAtFailure(i) ==
    IF i < Len(sketch_list) /\ all_compilations_successful
    THEN "compile_sketch" ELSE "create_report"

\* Where the for loop of compile_sketches goes after the sketch at index i.
AfterSketch(i) == IF i < Len(sketch_list) THEN "compile_sketch" ELSE "create_report"

\* __init__ up to the end, or up to the sys.exit(1) of an invalid input or of a
\* repository that is not found. An invalid enable-deltas-report ends the process
\* with the flag holding no boolean (it stays FALSE here); an invalid
\* enable-warnings-report ends it after the deltas flag was assigned.
Construct ==
    /\ pc = "construct"
    /\ LET input == construct_input[1]
           deltas == parse_boolean_input(input.enable_deltas_report)
           warnings == parse_boolean_input(input.enable_warnings_report)
       IN  /\ verbose' = parse_boolean_input(input.verbose)
           /\ \E repository_found \in BOOLEAN :
                LET ref == get_deltas_base_ref(input.event_name, repository_found)
                    lookup == IF input.event_name = PullRequestEvent
                              THEN <<[op |-> "get_repo", found |-> repository_found]>>
                              ELSE <<>>
                IN  IF deltas = None
                    THEN /\ repository_found
                         /\ exit_status' = Some(1)
                         /\ pc' = "done"
                         /\ UNCHANGED <<enable_deltas_report, enable_warnings_report,
                                        deltas_base_ref, history>>
                    ELSE IF warnings = None
                    THEN /\ repository_found
                         /\ enable_deltas_report' = deltas[1]
                         /\ exit_status' = Some(1)
                         /\ pc' = "done"
                         /\ UNCHANGED <<enable_warnings_report, deltas_base_ref, history>>
                    ELSE IF ~deltas[1]
                    THEN /\ repository_found
                         /\ enable_deltas_report' = FALSE
                         /\ enable_warnings_report' = warnings[1]
                         /\ deltas_base_ref' = NoRef
                         /\ pc' = "install"
                         /\ UNCHANGED <<exit_status, history>>
                    ELSE /\ input.event_name # PullRequestEvent => repository_found
                         /\ enable_deltas_report' = TRUE
                         /\ enable_warnings_report' = warnings[1]
                         /\ history' = history \o lookup
                         /\ IF ref = None
                            THEN /\ exit_status' = Some(1)
                                 /\ pc' = "done"
                                 /\ UNCHANGED deltas_base_ref
                            ELSE /\ deltas_base_ref' = ref[1]
                                 /\ pc' = "install"
                                 /\ UNCHANGED exit_status
    /\ UNCHANGED <<construct_input, sketch_list, sketch_index, head, original_git_ref,
                   compilation_result, previous_compilation_result, sketch_report_list,
                   all_compilations_successful, report_file, parseVars, deltaVars, sortVars,
                   pathVars, installVars, findVars, summaryVars, elapsedVars, columnsVars,
                   trendsVars>>

\* Statuses of the commands of the installations
CommandReturnCodes == {0, 1, 2}

\* The commands install_platforms and install_libraries run for a platform of the
\* package manager, a platform of another source and a library of the library manager
InstallCommands ==
    <<"core update-index", "core install", "core update-index", "core list", "lib install">>

\* The numbers of commands after which an installation ends the process with status
\* 1 without a failed command: none (install_arduino_cli finds its destination or
\* not its archive), two (the source path of the path platform does not exist), four
\* (the clone or the download fails, the source is not in it, or the destination
\* exists).
InstallFailurePoints == {0, 2, 4}

\* Start of compile_sketches(): install_arduino_cli, install_platforms and
\* install_libraries, which return or end the process: with the status of the first
\* command that failed, or with 1, before the commands that would follow, for a source
\* that is missing or a destination that exists.
InstallDependencies ==
    /\ pc = "install"
    /\ \E stop \in InstallFailurePoints \cup {Len(InstallCommands)} :
         \E returncodes \in [1..stop -> CommandReturnCodes] :
            LET run == run_commands(SubSeq(InstallCommands, 1, stop), returncodes)
                status == IF run.exit # 0 THEN run.exit
                          ELSE IF stop < Len(InstallCommands) THEN 1 ELSE 0
            IN  /\ history' = history \o <<[op |-> "install"]>> \o run.log
                /\ pc' = IF status = 0 THEN "find_sketches" ELSE "done"
                /\ exit_status' = IF status = 0 THEN exit_status ELSE Some(status)
    /\ UNCHANGED <<enable_deltas_report, enable_warnings_report, deltas_base_ref, sketch_list,
                   sketch_index, head, original_git_ref, compilation_result,
                   previous_compilation_result, sketch_report_list,
                   all_compilations_successful, report_file, otherThanPipeline>>

\* The lists find_sketches() returns, a sketch being a number: n different sketches, or
\* a list whose last sketch is also its first (a sketch below two of the sketch paths).
SketchLists ==
    {[i \in 1..n |-> i] : n \in 0..MaxSketches}
        \cup {[i \in 1..n |-> IF i = n THEN 1 ELSE i] : n \in 2..MaxSketches}

\* find_sketches() returns the list of sketches.
FindSketches ==
    /\ pc = "find_sketches"
    /\ \E list \in SketchLists :
        /\ sketch_list' = list
        /\ history' = Append(history, [op |-> "find_sketches", found |-> Len(list)])
        /\ pc' = IF list = <<>> THEN "create_report" ELSE "compile_sketch"
    /\ sketch_index' = 0
    /\ UNCHANGED <<enable_deltas_report, enable_warnings_report, deltas_base_ref, head,
                   original_git_ref, compilation_result, previous_compilation_result,
                   sketch_report_list, all_compilations_successful, report_file, exit_status,
                   otherThanPipeline>>

\* find_sketches() ends the process: a path is missing, is not a sketch or holds none.
FindSketchesExit ==
    /\ pc = "find_sketches"
    /\ exit_status' = Some(1)
    /\ pc' = "done"
    /\ UNCHANGED <<enable_deltas_report, enable_warnings_report, deltas_base_ref, sketch_list,
                   sketch_index, head, original_git_ref, compilation_result,
                   previous_compilation_result, sketch_report_list,
                   all_compilations_successful, report_file, history, otherThanPipeline>>

\* Mutant of CompileSketch: a compilation that failed is attempted once more.
CompileSketch_RetryFailed ==
    /\ pc = "compile_sketch"
    /\ \E data \in [returncode : ReturnCodes, stdout : RunOutputs] :
        LET result == CompilationResult(sketch_list[sketch_index + 1], data)
            retry == /\ ~result.success
                     /\ history[Len(history)].op # "compile"
        IN  /\ history' = Append(history, [op |-> "compile", sketch |-> result.sketch,
                                           index |-> sketch_index + 1,
                                           baseline |-> FALSE, ref |-> head,
                                           returncode |-> data.returncode,
                                           exit_on_failure |-> FALSE])
            /\ IF retry
               THEN /\ pc' = "compile_sketch"
                    /\ UNCHANGED <<sketch_index, compilation_result,
                                   all_compilations_successful>>
               ELSE /\ sketch_index' = sketch_index + 1
                    /\ compilation_result' = Some(result)
                    /\ all_compilations_successful' =
                           IF ~result.success THEN FALSE ELSE all_compilations_successful
                    /\ pc' = "get_sketch_report"
    /\ previous_compilation_result' = None
    /\ UNCHANGED <<enable_deltas_report, enable_warnings_report, deltas_base_ref, sketch_list,
                   head, original_git_ref, sketch_report_list, report_file, exit_status,
                   otherThanPipeline>>

\* Loop body of compile_sketches, first half: compile_sketch() at the current revision,
\* its command run with exit_on_failure=False.
CompileSketch ==
    /\ pc = "compile_sketch"
    /\ sketch_index' = sketch_index + 1
    /\ \E data \in [returncode : ReturnCodes, stdout : RunOutputs] :
        LET command_data == run_command(data.returncode, FALSE)
            result == CompilationResult(sketch_list[sketch_index'], data)
        IN  /\ history' = Append(history, [op |-> "compile", sketch |-> result.sketch,
                                           index |-> sketch_index',
                                           baseline |-> FALSE, ref |-> head,
                                           returncode |-> data.returncode,
                                           exit_on_failure |-> FALSE])
            /\ IF command_data.exit # None
               THEN /\ exit_status' = command_data.exit
                    /\ pc' = "done"
                    /\ UNCHANGED <<compilation_result, previous_compilation_result,
                                   all_compilations_successful>>
               ELSE /\ compilation_result' = Some(result)
                    /\ all_compilations_successful' =
                           IF ~result.success THEN FALSE ELSE all_compilations_successful
                    /\ previous_compilation_result' = None
                    /\ pc' = "get_sketch_report"
                    /\ UNCHANGED exit_status
    /\ UNCHANGED <<enable_deltas_report, enable_warnings_report, deltas_base_ref, sketch_list,
                   head, original_git_ref, sketch_report_list, report_file,
                   otherThanPipeline>>

\* get_sketch_report() up to its decision; without a baseline pass it returns the
\* report, which compile_sketches appends.
GetSketchReport ==
    /\ pc = "get_sketch_report"
    /\ LET result == compilation_result[1]
       IN  IF do_deltas_report(result, get_sizes_from_output(result), WarningCountOf(result))
           THEN /\ original_git_ref' = head
                /\ history' = Append(history, [op |-> "head", sketch |-> result.sketch,
                                               index |-> sketch_index, ref |-> head])
                /\ pc' = "checkout_base_ref"
                /\ UNCHANGED sketch_report_list
           ELSE /\ sketch_report_list' = Append(sketch_report_list, SketchReport(result, None))
                /\ pc' = AfterSketch(sketch_index)
                /\ UNCHANGED <<original_git_ref, history>>
    /\ UNCHANGED <<enable_deltas_report, enable_warnings_report, deltas_base_ref, sketch_list,
                   sketch_index, head, compilation_result, previous_compilation_result,
                   all_compilations_successful, report_file, exit_status, otherThanPipeline>>

\* checkout_deltas_base_ref(): git fetch, then git checkout of the base ref
CheckoutDeltasBaseRef ==
    /\ pc = "checkout_base_ref"
    /\ head' = deltas_base_ref
    /\ history' = Append(history, [op |-> "checkout", sketch |-> compilation_result[1].sketch,
                                   ref |-> deltas_base_ref])
    /\ pc' = "compile_previous"
    /\ UNCHANGED <<enable_deltas_report, enable_warnings_report, deltas_base_ref, sketch_list,
                   sketch_index, original_git_ref, compilation_result,
                   previous_compilation_result, sketch_report_list,
                   all_compilations_successful, report_file, exit_status, otherThanPipeline>>

\* Mutant of CompilePrevious: a failed compilation at the base ref counts as a failed
\* compilation of the run.
CompilePrevious_CountsFailure ==
    /\ pc = "compile_previous"
    /\ \E data \in [returncode : ReturnCodes, stdout : RunOutputs] :
        LET result == CompilationResult(compilation_result[1].sketch, data)
        IN  /\ history' = Append(history, [op |-> "compile", sketch |-> result.sketch,
                                           index |-> sketch_index,
                                           baseline |-> TRUE, ref |-> head,
                                           returncode |-> data.returncode,
                                           exit_on_failure |-> FALSE])
            /\ previous_compilation_result' = Some(result)
            /\ all_compilations_successful' =
                   IF ~result.success THEN FALSE ELSE all_compilations_successful
    /\ pc' = "checkout_original"
    /\ UNCHANGED <<enable_deltas_report, enable_warnings_report, deltas_base_ref, sketch_list,
                   sketch_index, head, original_git_ref, compilation_result,
                   sketch_report_list, report_file, exit_status, otherThanPipeline>>

\* compile_sketch() of the same sketch path at the base ref
CompilePrevious ==
    /\ pc = "compile_previous"
    /\ \E data \in [returncode : ReturnCodes, stdout : RunOutputs] :
        LET command_data == run_command(data.returncode, FALSE)
            result == CompilationResult(compilation_result[1].sketch, data)
        IN  /\ history' = Append(history, [op |-> "compile", sketch |-> result.sketch,
                                           index |-> sketch_index,
                                           baseline |-> TRUE, ref |-> head,
                                           returncode |-> data.returncode,
                                           exit_on_failure |-> FALSE])
            /\ IF command_data.exit # None
               THEN /\ exit_status' = command_data.exit
                    /\ pc' = "done"
                    /\ UNCHANGED previous_compilation_result
               ELSE /\ previous_compilation_result' = Some(result)
                    /\ pc' = "checkout_original"
                    /\ UNCHANGED exit_status
    /\ UNCHANGED <<enable_deltas_report, enable_warnings_report, deltas_base_ref, sketch_list,
                   sketch_index, head, original_git_ref, compilation_result,
                   sketch_report_list, all_compilations_successful, report_file,
                   otherThanPipeline>>

\* Mutant of CheckoutOriginal: the revision is restored only after a successful
\* baseline compilation.
CheckoutOriginal_OnlyOnSuccess ==
    /\ pc = "checkout_original"
    /\ head' = IF previous_compilation_result[1].success THEN original_git_ref ELSE head
    /\ history' = IF previous_compilation_result[1].success
                  THEN Append(history, [op |-> "checkout",
                                        sketch |-> compilation_result[1].sketch,
                                        ref |-> original_git_ref])
                  ELSE history
    /\ pc' = "previous_report"
    /\ UNCHANGED <<enable_deltas_report, enable_warnings_report, deltas_base_ref, sketch_list,
                   sketch_index, original_git_ref, compilation_result,
                   previous_compilation_result, sketch_report_list,
                   all_compilations_successful, report_file, exit_status, otherThanPipeline>>

\* repository.git.checkout(original_git_ref)
CheckoutOriginal ==
    /\ pc = "checkout_original"
    /\ head' = original_git_ref
    /\ history' = Append(history, [op |-> "checkout", sketch |-> compilation_result[1].sketch,
                                   ref |-> original_git_ref])
    /\ pc' = "previous_report"
    /\ UNCHANGED <<enable_deltas_report, enable_warnings_report, deltas_base_ref, sketch_list,
                   sketch_index, original_git_ref, compilation_result,
                   previous_compilation_result, sketch_report_list,
                   all_compilations_successful, report_file, exit_status, otherThanPipeline>>

\* Rest of get_sketch_report() after a baseline pass; compile_sketches appends the report.
ReportWithPrevious ==
    /\ pc = "previous_report"
    /\ sketch_report_list' = Append(sketch_report_list,
                                    SketchReport(compilation_result[1],
                                                 previous_compilation_result))
    /\ pc' = AfterSketch(sketch_index)
    /\ UNCHANGED <<enable_deltas_report, enable_warnings_report, deltas_base_ref, sketch_list,
                   sketch_index, head, original_git_ref, compilation_result,
                   previous_compilation_result, all_compilations_successful, report_file,
                   exit_status, history, otherThanPipeline>>

\* get_sketches_report() and create_sketches_report_file()
CreateSketchesReportFile ==
    /\ pc = "create_report"
    /\ report_file' = Some(get_sketches_report(sketch_report_list))
    /\ history' = Append(history, [op |-> "report_file"])
    /\ pc' = "exit"
    /\ UNCHANGED <<enable_deltas_report, enable_warnings_report, deltas_base_ref, sketch_list,
                   sketch_index, head, original_git_ref, compilation_result,
                   previous_compilation_result, sketch_report_list,
                   all_compilations_successful, exit_status, otherThanPipeline>>

\* End of compile_sketches(): sys.exit(1) after a failed compilation, else a normal return.
Exit ==
    /\ pc = "exit"
    /\ exit_status' = IF ~all_compilations_successful THEN Some(1) ELSE Some(0)
    /\ pc' = "done"
    /\ UNCHANGED <<enable_deltas_report, enable_warnings_report, deltas_base_ref, sketch_list,
                   sketch_index, head, original_git_ref, compilation_result,
                   previous_compilation_result, sketch_report_list,
                   all_compilations_successful, report_file, history, otherThanPipeline>>

Next ==
    \/ Construct
    \/ InstallDependencies
    \/ FindSketches
    \/ FindSketchesExit
    \/ CompileSketch
    \/ GetSketchReport
    \/ CheckoutDeltasBaseRef
    \/ CompilePrevious
    \/ CheckoutOriginal
    \/ ReportWithPrevious
    \/ CreateSketchesReportFile
    \/ Exit

Spec == Init /\ [][Next]_vars

-----------------------------------------------------------------------------
(* SpecSizes: compile_sketch's result and the output parsers applied to it *)

SizesInit ==
    /\ compilation_data \in [returncode : ReturnCodes, stdout : CompilationOutputs]
    /\ parse_input = None
    /\ parsed_sizes = None
    /\ parsed_warning_count = None
    /\ PipelineIdle /\ DeltaIdle /\ SortIdle /\ PathIdle
    /\ InstallIdle /\ FindIdle /\ SummaryIdle /\ ConstructIdle
    /\ ElapsedIdle /\ ColumnsIdle /\ TrendsIdle

otherThanParse == <<pipelineVars, deltaVars, sortVars, pathVars, installVars, findVars,
                    summaryVars, constructVars, elapsedVars, columnsVars, trendsVars>>

MakeCompilationResult ==
    /\ parse_input = None
    /\ parse_input' = Some(CompilationResult(1, compilation_data))
    /\ UNCHANGED <<compilation_data, parsed_sizes, parsed_warning_count, otherThanParse>>

GetSizesFromOutput ==
    /\ parse_input # None
    /\ parsed_sizes = None
    /\ parsed_sizes' = Some(get_sizes_from_output(parse_input[1]))
    /\ UNCHANGED <<compilation_data, parse_input, parsed_warning_count, otherThanParse>>

GetWarningCountFromOutput ==
    /\ parse_input # None
    /\ parsed_warning_count = None
    /\ parsed_warning_count' = Some(get_warning_count_from_output(parse_input[1]))
    /\ UNCHANGED <<compilation_data, parse_input, parsed_sizes, otherThanParse>>

SizesNext == MakeCompilationResult \/ GetSizesFromOutput \/ GetWarningCountFromOutput

SpecSizes == SizesInit /\ [][SizesNext]_vars

-----------------------------------------------------------------------------
(* SpecDelta: get_size_report and get_warnings_report applied to one pair of figures *)

\* The size entries get_sizes_from_output can return for a memory type: nothing
\* determined, only the absolute figure, or both figures and their ratio.
SizeFigures ==
    LET none == [name |-> "flash",
                 absolute |-> not_applicable_indicator,
                 maximum |-> not_applicable_indicator,
                 relative |-> not_applicable_indicator]
    IN  {none}
        \cup {[none EXCEPT !.absolute = Num(a)] : a \in 1..MaxSize}
        \cup {[none EXCEPT !.absolute = Num(a[1]), !.maximum = Num(a[2]),
                  !.relative = Num(RoundPercent(a[1], a[2],
                                                relative_size_report_decimal_places))] :
                 a \in (1..MaxSize) \X (1..MaxSize)}

\* The counts get_warning_count_from_output can return.
WarningCounts == {Num(w) : w \in 0..MaxWarnings} \cup {not_applicable_indicator}

DeltaInit ==
    /\ delta_input \in [current_size : SizeFigures,
                        previous_size : {None} \cup {Some(f) : f \in SizeFigures},
                        current_warnings : WarningCounts,
                        previous_warnings : {None} \cup WarningCounts]
    /\ size_report = None
    /\ warnings_report = None
    /\ PipelineIdle /\ ParseIdle /\ SortIdle /\ PathIdle
    /\ InstallIdle /\ FindIdle /\ SummaryIdle /\ ConstructIdle
    /\ ElapsedIdle /\ ColumnsIdle /\ TrendsIdle

otherThanDelta == <<pipelineVars, parseVars, sortVars, pathVars, installVars, findVars,
                    summaryVars, constructVars, elapsedVars, columnsVars, trendsVars>>

GetSizeReport ==
    /\ size_report = None
    /\ size_report' = Some(get_size_report(delta_input.current_size,
                                           delta_input.previous_size))
    /\ UNCHANGED <<delta_input, warnings_report, otherThanDelta>>

GetWarningsReport ==
    /\ warnings_report = None
    /\ warnings_report' = Some(get_warnings_report(delta_input.current_warnings,
                                                   delta_input.previous_warnings))
    /\ UNCHANGED <<delta_input, size_report, otherThanDelta>>

DeltaNext == GetSizeReport \/ GetWarningsReport

SpecDelta == DeltaInit /\ [][DeltaNext]_vars

-----------------------------------------------------------------------------
(* SpecSort: sort_dependency_list applied to one list of declarations *)

\* URLs of the declarations:
\*   "h/r.git", "h/r.git/", "git://h/r", "h/package_x_index.json", "h/r.zip",
\*   "git://h/package_index.json", "h/r.git/x", "package_index.json",
\*   "h/package_index.json/x", "h\n/package_index.json"
SourceUrls ==
    { <<"h", "/", "r", ".", "g", "i", "t">>,
      <<"h", "/", "r", ".", "g", "i", "t", "/">>,
      <<"g", "i", "t", ":", "/", "/", "h", "/", "r">>,
      <<"h", "/", "p", "a", "c", "k", "a", "g", "e", "_", "x", "_",
        "i", "n", "d", "e", "x", ".", "j", "s", "o", "n">>,
      <<"h", "/", "r", ".", "z", "i", "p">>,
      <<"g", "i", "t", ":", "/", "/", "h", "/", "p", "a", "c", "k", "a", "g", "e", "_",
        "i", "n", "d", "e", "x", ".", "j", "s", "o", "n">>,
      <<"h", "/", "r", ".", "g", "i", "t", "/", "x">>,
      <<"p", "a", "c", "k", "a", "g", "e", "_",
        "i", "n", "d", "e", "x", ".", "j", "s", "o", "n">>,
      <<"h", "/", "p", "a", "c", "k", "a", "g", "e", "_",
        "i", "n", "d", "e", "x", ".", "j", "s", "o", "n", "/", "x">>,
      <<"h", "\n", "/", "p", "a", "c", "k", "a", "g", "e", "_",
        "i", "n", "d", "e", "x", ".", "j", "s", "o", "n">> }

\* URLs also declared together with a source-path: a repository, a package index and a
\* download.
SourceUrlsWithPath ==
    { <<"h", "/", "r", ".", "g", "i", "t">>,
      <<"h", "/", "p", "a", "c", "k", "a", "g", "e", "_", "x", "_",
        "i", "n", "d", "e", "x", ".", "j", "s", "o", "n">>,
      <<"h", "/", "r", ".", "z", "i", "p">> }

EmptyDeclaration == [key \in {} |-> ""]

\* The entries of a dependency list: None, or Some(dictionary) with a name only, a
\* name and a source-path, a source-url (with or without source-path), or no key at
\* all.
Declarations ==
    {None, Some(EmptyDeclaration)}
    \cup {Some(dependency_name_key :> "n")}
    \cup {Some((dependency_name_key :> "n") @@ (dependency_source_path_key :> "p"))}
    \cup {Some((dependency_name_key :> "n") @@ (dependency_source_url_key :> url)) :
             url \in SourceUrls}
    \cup {Some((dependency_source_url_key :> url) @@ (dependency_source_path_key :> "p")) :
             url \in SourceUrlsWithPath}

SortInit ==
    /\ dependency_list \in SeqsUpTo(Declarations, MaxDependencies)
    /\ sorted_dependencies = None
    /\ PipelineIdle /\ ParseIdle /\ DeltaIdle /\ PathIdle
    /\ InstallIdle /\ FindIdle /\ SummaryIdle /\ ConstructIdle
    /\ ElapsedIdle /\ ColumnsIdle /\ TrendsIdle

otherThanSort == <<pipelineVars, parseVars, deltaVars, pathVars, installVars, findVars,
                   summaryVars, constructVars, elapsedVars, columnsVars, trendsVars>>

SortDependencyList ==
    /\ sorted_dependencies = None
    /\ sorted_dependencies' = Some(sort_dependency_list(dependency_list))
    /\ UNCHANGED <<dependency_list, otherThanSort>>

SortNext == SortDependencyList

SpecSort == SortInit /\ [][SortNext]_vars

-----------------------------------------------------------------------------
(* SpecPath: get_platform_installation_path applied to one platform and one answer of
   arduino-cli core list *)

\* "a:b", "a:c", "d:b", "a:b:c"
PlatformNames ==
    { <<"a", ":", "b">>, <<"a", ":", "c">>, <<"d", ":", "b">>,
      <<"a", ":", "b", ":", "c">> }

InstalledVersions == {"1.0.0", "2.0.0"}

CliVersions ==
    { <<"latest">>, <<0, 13, 0>>, <<0, 17, 0>>, <<0, 17, 1>>, <<0, 35, 3>>,
      <<1, 0, 0>>, <<1, 1, 0>> }

\* What arduino-cli core list --format json of the version prints for the installed
\* platforms: a list of objects with the keys of that version, since 1.0.0 inside an
\* object with the key "platforms", whose value is null when null_platforms is set.
core_list_data(cli_version, installed, null_platforms) ==
    LET new_interface ==
            Len(cli_version) # 3 \/ semver_compare(cli_version, <<1, 0, 0>>) >= 0
        id_key == IF Len(cli_version) = 3 /\ semver_compare(cli_version, <<0, 17, 0>>) <= 0
                  THEN "ID" ELSE "id"
        version_key ==
            IF new_interface THEN "installed_version"
            ELSE IF semver_compare(cli_version, <<0, 17, 0>>) <= 0 THEN "Installed"
            ELSE "installed"
        list == [i \in DOMAIN installed |->
                    (id_key :> installed[i].id) @@ (version_key :> installed[i].version)]
    IN  IF new_interface
        THEN [platforms |-> IF null_platforms THEN None ELSE Some(list)]
        ELSE list

PathInit ==
    /\ \E name \in PlatformNames, cli_version \in CliVersions,
          installed \in SeqsUpTo([id : PlatformNames, version : InstalledVersions],
                                 MaxInstalled),
          null_platforms \in BOOLEAN :
          /\ null_platforms => installed = <<>>
          /\ path_input = Some([platform |-> (dependency_name_key :> name),
                                cli_version |-> cli_version,
                                installed |-> installed,
                                command_data |-> core_list_data(cli_version, installed,
                                                                null_platforms)])
    /\ platform_installation_path = None
    /\ PipelineIdle /\ ParseIdle /\ DeltaIdle /\ SortIdle
    /\ InstallIdle /\ FindIdle /\ SummaryIdle /\ ConstructIdle
    /\ ElapsedIdle /\ ColumnsIdle /\ TrendsIdle

otherThanPath == <<pipelineVars, parseVars, deltaVars, sortVars, installVars, findVars,
                   summaryVars, constructVars, elapsedVars, columnsVars, trendsVars>>

GetPlatformInstallationPath ==
    /\ platform_installation_path = None
    /\ platform_installation_path' =
          Some(get_platform_installation_path(path_input[1].platform,
                                              path_input[1].cli_version,
                                              path_input[1].command_data))
    /\ UNCHANGED <<path_input, otherThanPath>>

PathNext == GetPlatformInstallationPath

SpecPath == PathInit /\ [][PathNext]_vars

-----------------------------------------------------------------------------
(* SpecInstall: install_platforms on a runner with no platform installed.
   The package manager lists the platforms it installed itself, keeps one version of a
   platform, and a command, a clone or a download may fail. *)

MaxPlatforms == 3

InstallNames == { <<"a", ":", "b">>, <<"c", ":", "d">> }

InstallFqbns == { <<"a", ":", "b", ":", "u">>, <<"c", ":", "d", ":", "u", ":", "o">> }

PackageIndexUrl ==
    <<"h", "/", "p", "a", "c", "k", "a", "g", "e", "_", "x", "_",
      "i", "n", "d", "e", "x", ".", "j", "s", "o", "n">>
RepositoryUrl == <<"h", "/", "r", ".", "g", "i", "t">>
ArchiveUrl == <<"h", "/", "r", ".", "z", "i", "p">>

\* The platform dependencies of the platforms input: from the package manager (with or
\* without a version), from a path, from a repository, from a download.
PlatformDeclarations ==
    UNION {{ Some(dependency_name_key :> name),
             Some((dependency_name_key :> name) @@ (dependency_version_key :> "1.0.0")),
             Some((dependency_name_key :> name) @@ (dependency_source_path_key :> "p")),
             Some((dependency_name_key :> name) @@ (dependency_source_url_key :> RepositoryUrl)),
             Some((dependency_name_key :> name) @@ (dependency_source_url_key :> ArchiveUrl)) } :
           name \in InstallNames}

InstallCliVersions == { <<"latest">>, <<0, 17, 0>> }

InstallInit ==
    /\ \E platforms \in {None} \cup {Some(list) : list \in SeqsUpTo(PlatformDeclarations,
                                                                   MaxPlatforms)},
          fqbn \in InstallFqbns, additional_url \in {None, Some(PackageIndexUrl)},
          cli_version \in InstallCliVersions :
          /\ platforms # None => fqbn = <<"a", ":", "b", ":", "u">> /\ additional_url = None
          /\ install_input = Some([platforms |-> platforms, fqbn |-> fqbn,
                                   additional_url |-> additional_url,
                                   cli_version |-> cli_version])
    /\ platform_list = None
    /\ install_pc = "install_platforms"
    /\ install_index = 0
    /\ installed_platforms = <<>>
    /\ platform_files = {}
    /\ install_history = <<>>
    /\ install_exit_status = None
    /\ PipelineIdle /\ ParseIdle /\ DeltaIdle /\ SortIdle
    /\ PathIdle /\ FindIdle /\ SummaryIdle /\ ConstructIdle
    /\ ElapsedIdle /\ ColumnsIdle /\ TrendsIdle

otherThanInstall == <<pipelineVars, parseVars, deltaVars, sortVars, pathVars, findVars,
                      summaryVars, constructVars, elapsedVars, columnsVars, trendsVars>>

\* The handlers install_from_path registered with atexit run when the process ends:
\* every symlink it made is unlinked, the installations of the package manager stay.
atexit_handlers(files) == {f \in files : f.source = "manager"}

\* sys.exit(status) after the events of log, and the end of the process
InstallExit(status, log) ==
    /\ install_pc' = "exited"
    /\ install_exit_status' = Some(status)
    /\ install_history' = install_history \o log
    /\ platform_files' = atexit_handlers(platform_files)
    /\ UNCHANGED <<install_index, installed_platforms>>

\* The platform at install_index of the stage's list is done
InstallAdvance(stage) ==
    /\ install_pc' = after_platform(platform_list[1], stage, install_index + 1)
    /\ install_index' = IF install_pc' = stage THEN install_index + 1 ELSE 0
    /\ install_exit_status' = install_exit_status

\* install_platforms up to its first installation
InstallPlatforms ==
    /\ install_pc = "install_platforms"
    /\ platform_list' = Some(platform_list_of(install_input[1].platforms,
                                              install_input[1].fqbn,
                                              install_input[1].additional_url))
    /\ install_pc' = stage_from(platform_list'[1], 1)
    /\ UNCHANGED <<install_input, install_index, installed_platforms, platform_files,
                   install_history, install_exit_status, otherThanInstall>>

\* One round of the loop of install_platforms_from_board_manager
InstallPlatformFromBoardManager ==
    /\ install_pc = "manager"
    /\ LET platform == platform_list[1].manager[install_index + 1]
       IN  \E returncodes \in [1..2 -> ReturnCodes] :
             LET run == run_commands(<<"core update-index", "core install">>, returncodes)
             IN  IF run.exit # 0 THEN InstallExit(run.exit, run.log)
                 ELSE /\ installed_platforms' = core_install(installed_platforms, platform)
                      /\ platform_files' =
                            core_install_files(platform_files, installed_platforms, platform)
                      /\ install_history' = install_history \o run.log
                            \o <<[op |-> "install", kind |-> "manager",
                                  index |-> install_index + 1]>>
                      /\ InstallAdvance("manager")
    /\ UNCHANGED <<install_input, platform_list, otherThanInstall>>

\* The install_platforms_from_... functions after their checks of the declaration:
\* get_platform_installation_path, then the clone or the download, then
\* install_from_path, for the platform at install_index of the stage's list.
ResolveAndInstall(stage) ==
    LET platform == platform_list[1][stage][install_index + 1]
        call == <<[op |-> "get_platform_installation_path", kind |-> stage,
                   index |-> install_index + 1]>>
    IN  \E returncodes \in [1..2 -> ReturnCodes], null_platforms \in BOOLEAN,
           fetched \in BOOLEAN, source_exists \in BOOLEAN :
          LET run == run_commands(<<"core update-index", "core list">>, returncodes)
              destination_path ==
                  get_platform_installation_path(
                      platform, install_input[1].cli_version,
                      core_list_data(install_input[1].cli_version, installed_platforms,
                                     null_platforms /\ installed_platforms = <<>>))
              files == install_from_path(platform_files, destination_path.path,
                                         destination_path.is_overwrite, platform, stage)
              fetch == IF stage = "path" THEN <<>>
                       ELSE <<[op |-> IF stage = "repository" THEN "clone" ELSE "download",
                               ok |-> fetched]>>
          IN  /\ stage = "path" => fetched /\ source_exists
              /\ stage = "repository" => source_exists
              /\ IF run.exit # 0 THEN InstallExit(run.exit, call \o run.log)
                 ELSE IF ~fetched THEN InstallExit(1, call \o run.log \o fetch)
                 ELSE IF ~source_exists THEN InstallExit(1, call \o run.log \o fetch)
                 ELSE IF files = None THEN InstallExit(1, call \o run.log \o fetch)
                 ELSE /\ platform_files' = files[1]
                      /\ installed_platforms' = installed_platforms
                      /\ install_history' = install_history \o call \o run.log
                            \o fetch
                            \o <<[op |-> "install", kind |-> stage,
                                  index |-> install_index + 1]>>
                      /\ InstallAdvance(stage)

\* One round of the loop of install_platforms_from_path
InstallPlatformFromPath ==
    /\ install_pc = "path"
    /\ \/ InstallExit(1, <<>>)        \* the source path does not exist
       \/ ResolveAndInstall("path")
    /\ UNCHANGED <<install_input, platform_list, otherThanInstall>>

\* One round of the loop of install_platforms_from_repository
InstallPlatformFromRepository ==
    /\ install_pc = "repository"
    /\ ResolveAndInstall("repository")
    /\ UNCHANGED <<install_input, platform_list, otherThanInstall>>

\* One round of the loop of install_platforms_from_download
InstallPlatformFromDownload ==
    /\ install_pc = "download"
    /\ ResolveAndInstall("download")
    /\ UNCHANGED <<install_input, platform_list, otherThanInstall>>

InstallNext ==
    \/ InstallPlatforms
    \/ InstallPlatformFromBoardManager
    \/ InstallPlatformFromPath
    \/ InstallPlatformFromRepository
    \/ InstallPlatformFromDownload

SpecInstall == InstallInit /\ [][InstallNext]_vars

-----------------------------------------------------------------------------
(* SpecFind: find_sketches applied to one file tree and one list of sketch paths *)

MaxSketchPaths == 2

dir_d == <<"d">>
dir_e == <<"e">>
x_ino == <<"x", ".", "i", "n", "o">>
t_pde == <<"t", ".", "p", "d", "e">>
n_txt == <<"n", ".", "t", "x", "t">>

\* The entries a tree may have: folders, among them one named like a sketch file ...
FolderPaths == { <<dir_d>>, <<dir_d, dir_e>>, <<dir_d, x_ino>>, <<dir_d, dir_e, x_ino>> }

\* ... and files, the same names among them.
FilePaths ==
    { <<x_ino>>, <<dir_d, x_ino>>, <<dir_d, t_pde>>, <<dir_d, n_txt>>, <<dir_d, dir_e, x_ino>>, <<dir_d, dir_e, t_pde>>,
      <<dir_d, x_ino, t_pde>> }

FileTrees ==
    {tree \in [files : SUBSET FilePaths, dirs : SUBSET FolderPaths] :
        /\ tree.files \cap tree.dirs = {}
        /\ \A entry \in tree.files \cup tree.dirs :
              Len(entry) > 1 => parent(entry) \in tree.dirs}

SketchPaths == {<<>>} \cup FolderPaths \cup FilePaths

FindInit ==
    /\ \E tree \in FileTrees, sketch_paths \in SeqsUpTo(SketchPaths, MaxSketchPaths) :
          find_input = Some([tree |-> tree, sketch_paths |-> sketch_paths])
    /\ find_result = None
    /\ PipelineIdle /\ ParseIdle /\ DeltaIdle /\ SortIdle
    /\ PathIdle /\ InstallIdle /\ SummaryIdle /\ ConstructIdle
    /\ ElapsedIdle /\ ColumnsIdle /\ TrendsIdle

otherThanFind == <<pipelineVars, parseVars, deltaVars, sortVars, pathVars, installVars,
                   summaryVars, constructVars, elapsedVars, columnsVars, trendsVars>>

FindSketchesInTree ==
    /\ find_result = None
    /\ find_result' = Some(find_sketches(find_input[1].tree, find_input[1].sketch_paths))
    /\ UNCHANGED <<find_input, otherThanFind>>

FindNext == FindSketchesInTree

SpecFind == FindInit /\ [][FindNext]_vars

-----------------------------------------------------------------------------
(* SpecSummary: get_sketches_report, with get_sizes_summary_report and
   get_warnings_summary_report, applied to one list of sketch reports *)

MaxReports == 3

\* What get_sizes_from_output and get_warning_count_from_output make of one
\* compilation: of a failed one ...
FailedFigures ==
    [sizes |-> [i \in DOMAIN memory_types |->
                   [name |-> memory_types[i].name,
                    absolute |-> not_applicable_indicator,
                    maximum |-> not_applicable_indicator,
                    relative |-> not_applicable_indicator]],
     warnings |-> not_applicable_indicator]

\* ... of one memory type of a successful one, from the numbers of its size line
\* (maximum is None when the line has no "Maximum is" clause): a number of 0 is
\* not taken (`if size_data:`), and without the number used the maximum is not
\* looked for
FiguresOfMemoryType(name, absolute, maximum) ==
    LET default == [name |-> name,
                    absolute |-> not_applicable_indicator,
                    maximum |-> not_applicable_indicator,
                    relative |-> not_applicable_indicator]
    IN  IF Truthy(Num(absolute))
        THEN IF maximum # None /\ Truthy(maximum[1])
             THEN [default EXCEPT !.absolute = Num(absolute), !.maximum = maximum[1],
                       !.relative = Num(RoundPercent(absolute, Val(maximum[1]),
                                                     relative_size_report_decimal_places))]
             ELSE [default EXCEPT !.absolute = Num(absolute)]
        ELSE default

\* ... and of a successful one with the given flash, RAM and warning figures
Figures(flash, ram, maximum, warnings) ==
    [sizes |-> [i \in DOMAIN memory_types |->
                   FiguresOfMemoryType(memory_types[i].name, IF i = 1 THEN flash ELSE ram,
                               Some(Num(maximum)))],
     warnings |-> Num(warnings)]

\* ... and of a successful one whose output has no "Maximum is" clause
FiguresWithoutMaximum(flash, ram, warnings) ==
    [sizes |-> [i \in DOMAIN memory_types |->
                   FiguresOfMemoryType(memory_types[i].name, IF i = 1 THEN flash ELSE ram, None)],
     warnings |-> Num(warnings)]

\* The last has no flash figure: its size line says 0 bytes
SuccessfulFigures ==
    { Figures(1, 2, 4, 0), Figures(2, 2, 4, 1), FiguresWithoutMaximum(0, 1, 1) }

\* The dictionary get_sketch_report returns for the figures of the current
\* compilation and, when the baseline was compiled, those of the baseline
SummarySketchReport(current, previous, warnings_enabled) ==
    LET report == [name |-> "sketch",
                   compilation_success |-> current # FailedFigures,
                   sizes |-> get_sizes_report(
                                 current.sizes,
                                 IF previous = None THEN None ELSE previous[1].sizes)]
    IN  IF warnings_enabled
        THEN report @@ [warnings |-> get_warnings_report(
                                         current.warnings,
                                         IF previous = None THEN None
                                         ELSE previous[1].warnings)]
        ELSE report

\* The sketch reports of a run: a failed compilation has no baseline pass
SummarySketchReports(warnings_enabled) ==
    {SummarySketchReport(FailedFigures, None, warnings_enabled)}
    \cup {SummarySketchReport(current, previous, warnings_enabled) :
             current \in SuccessfulFigures,
             previous \in {None} \cup {Some(figures) :
                                          figures \in SuccessfulFigures \cup {FailedFigures}}}

SummaryInit ==
    /\ \E warnings_enabled \in BOOLEAN :
          summary_input \in {Some(list) :
                                list \in SeqsUpTo(SummarySketchReports(warnings_enabled),
                                                  MaxReports)}
    /\ sizes_summary = None
    /\ warnings_summary = None
    /\ sketches_report = None
    /\ PipelineIdle /\ ParseIdle /\ DeltaIdle /\ SortIdle
    /\ PathIdle /\ InstallIdle /\ FindIdle /\ ConstructIdle
    /\ ElapsedIdle /\ ColumnsIdle /\ TrendsIdle

otherThanSummary == <<pipelineVars, parseVars, deltaVars, sortVars, pathVars, installVars,
                      findVars, constructVars, elapsedVars, columnsVars, trendsVars>>

\* get_sketches_report and the two summaries it asks for
GetSketchesReport ==
    /\ sketches_report = None
    /\ sizes_summary' = Some(get_sizes_summary_report(summary_input[1]))
    /\ warnings_summary' = Some(get_warnings_summary_report(summary_input[1]))
    /\ sketches_report' = Some(get_sketches_report(summary_input[1]))
    /\ UNCHANGED <<summary_input, otherThanSummary>>

SummaryNext == GetSketchesReport

SpecSummary == SummaryInit /\ [][SummaryNext]_vars

-----------------------------------------------------------------------------
(* SpecElapsed: the elapsed time compile_sketch prints after a successful
   compilation.  A duration is a number of whole seconds and whether a fraction of
   a second follows. *)

MaxElapsed == 400

\* diff_time > seconds
longer_than(duration, seconds) ==
    duration.seconds > seconds \/ (duration.seconds = seconds /\ duration.fraction)

\* time_summary of compile_sketch, as the parts of the string: a number and its unit
time_summary_of(duration) ==
    (IF longer_than(duration, 60)
     THEN (IF longer_than(duration, 360)
           THEN <<[number |-> duration.seconds \div 360, unit |-> "h"]>>
           ELSE <<>>)
          \o <<[number |-> (duration.seconds \div 60) % 60, unit |-> "m"]>>
     ELSE <<>>)
    \o <<[number |-> duration.seconds % 60, unit |-> "s"]>>

ElapsedInit ==
    /\ diff_time \in {Some(duration) :
                         duration \in [seconds : 0..MaxElapsed, fraction : BOOLEAN]}
    /\ time_summary = None
    /\ PipelineIdle /\ ParseIdle /\ DeltaIdle /\ SortIdle
    /\ PathIdle /\ InstallIdle /\ FindIdle /\ SummaryIdle
    /\ ConstructIdle /\ ColumnsIdle /\ TrendsIdle

otherThanElapsed == <<pipelineVars, parseVars, deltaVars, sortVars, pathVars, installVars,
                      findVars, summaryVars, constructVars, columnsVars, trendsVars>>

\* The end of compile_sketch after a successful compilation
PrintTimeElapsed ==
    /\ time_summary = None
    /\ time_summary' = Some(time_summary_of(diff_time[1]))
    /\ UNCHANGED <<diff_time, otherThanElapsed>>

ElapsedNext == PrintTimeElapsed

SpecElapsed == ElapsedInit /\ [][ElapsedNext]_vars

-----------------------------------------------------------------------------
(* reportsizetrends.py: the columns of a board.  A cell is the sequence of the
   strings it is made of, <<>> when it is empty; a column identifier is a sequence
   of characters. *)

flash_heading_indicator == " flash"
ram_heading_indicator == " RAM"

\* The characters of the code points 65 to 95
CodePointsFrom65 ==
    <<"A", "B", "C", "D", "E", "F", "G", "H", "I", "J", "K", "L", "M", "N", "O", "P", "Q",
      "R", "S", "T", "U", "V", "W", "X", "Y", "Z", "[", "\\", "]", "^", "_">>

chr(code) == CodePointsFrom65[code - 64]

\* get_data_column_letters; heading_row is heading_row_data["values"][0], not empty
get_data_column_letters(fqbn, heading_row) ==
    LET matches == {i \in DOMAIN heading_row :
                       heading_row[i] = <<fqbn, flash_heading_indicator>>}
        populated == matches # {}
        index == IF populated
                 THEN (CHOOSE i \in matches : \A j \in matches : i <= j) - 1
                 ELSE (Len(heading_row) - 1) + 1
    IN  [populated |-> populated,
         flash |-> <<chr(index + 65)>>,
         ram |-> <<chr(index + 1 + 65)>>]

-----------------------------------------------------------------------------
(* reportsizetrends.py: the sheet.  The sheet is a sequence of rows, a row a sequence
   of cells.  A request reads the values the cells display, without the empty cells
   that end a row (or a column); an update writes the given values from the first
   cell of its range on. *)

heading_row_number == 1
shared_data_first_column_letter == <<"A">>
shared_data_last_column_letter == <<"C">>
commit_hash_column_letter == <<"C">>
shared_data_columns_headings_data ==
    <<<<"Commit Timestamp">>, <<"Sketch Name">>, <<"Commit Hash">>>>

Alphabet ==
    <<"A", "B", "C", "D", "E", "F", "G", "H", "I", "J", "K", "L", "M", "N", "O", "P", "Q",
      "R", "S", "T", "U", "V", "W", "X", "Y", "Z">>

\* The column an identifier of one letter names in a range
ColumnNumber(letter) == CHOOSE i \in 1..26 : Alphabet[i] = letter[1]

Larger(a, b) == IF a >= b THEN a ELSE b

CellAt(cells, row_number, column) ==
    IF row_number <= Len(cells) /\ column <= Len(cells[row_number])
    THEN cells[row_number][column] ELSE <<>>

\* What a cell displays: the text of a "=HYPERLINK(url, T(text))" formula, else what
\* was entered
displayed(cell) ==
    IF Len(cell) = 3 /\ cell[1] = "=HYPERLINK" THEN <<cell[3]>> ELSE cell

RECURSIVE WithoutTrailingEmpty(_)
WithoutTrailingEmpty(values) ==
    IF values = <<>> THEN <<>>
    ELSE IF values[Len(values)] = <<>>
         THEN WithoutTrailingEmpty(SubSeq(values, 1, Len(values) - 1))
         ELSE values

\* spreadsheets().values().get of a whole row: None when the response has no "values"
values_get_row(cells, row_number) ==
    LET width == IF row_number <= Len(cells) THEN Len(cells[row_number]) ELSE 0
        values == WithoutTrailingEmpty(
                      [c \in 1..width |-> displayed(CellAt(cells, row_number, c))])
    IN  IF values = <<>> THEN None ELSE Some(values)

\* spreadsheets().values().get of a whole column: one entry for each row, down to the
\* last row with a value in the column
values_get_column(cells, column) ==
    LET values == WithoutTrailingEmpty(
                      [r \in 1..Len(cells) |-> displayed(CellAt(cells, r, column))])
    IN  IF values = <<>> THEN None ELSE Some(values)

\* spreadsheets().values().update of the cells of one row, from first_letter to
\* last_letter
values_update(cells, first_letter, last_letter, row_number, values) ==
    LET first == ColumnNumber(first_letter)
        last == ColumnNumber(last_letter)
        old == IF row_number <= Len(cells) THEN cells[row_number] ELSE <<>>
        updated == [c \in 1..Larger(Len(old), last) |->
                       IF c \in first..last THEN values[c - first + 1]
                       ELSE IF c <= Len(old) THEN old[c] ELSE <<>>]
    IN  [r \in 1..Larger(Len(cells), row_number) |->
            IF r = row_number THEN updated
            ELSE IF r <= Len(cells) THEN cells[r] ELSE <<>>]

\* A request of a run and the values it got (None for an update, and for a read
\* whose response has no "values")
Request(method, first_letter, last_letter, row_number, response) ==
    [method |-> method, first |-> first_letter, last |-> last_letter, row |-> row_number,
     response |-> response]

get_heading_row_data(cells) == values_get_row(cells, heading_row_number)

populate_shared_data_headings(cells) ==
    values_update(cells, shared_data_first_column_letter, shared_data_last_column_letter,
                  heading_row_number, shared_data_columns_headings_data)

populate_data_column_headings(cells, fqbn, flash_column_letter, ram_column_letter) ==
    values_update(cells, flash_column_letter, ram_column_letter, heading_row_number,
                  <<<<fqbn, flash_heading_indicator>>, <<fqbn, ram_heading_indicator>>>>)

\* Mutant of get_current_row: the row after the last one is always used.
get_current_row_AlwaysNew(cells, commit_hash) ==
    [populated |-> FALSE,
     number |-> Len(values_get_column(cells, ColumnNumber(commit_hash_column_letter))[1]) + 1]

\* get_current_row; the commit hash column has its heading, and no cell above its last
\* value is empty
get_current_row(cells, commit_hash) ==
    LET commit_hash_column_data ==
            values_get_column(cells, ColumnNumber(commit_hash_column_letter))[1]
        matches == {i \in DOMAIN commit_hash_column_data :
                       commit_hash_column_data[i] = <<commit_hash>>}
        populated == matches # {}
    IN  [populated |-> populated,
         number |-> IF populated THEN CHOOSE i \in matches : \A j \in matches : i <= j
                    ELSE Len(commit_hash_column_data) + 1]

create_row(cells, row_number, report_data) ==
    values_update(cells, shared_data_first_column_letter, shared_data_last_column_letter,
                  row_number,
                  <<<<"timestamp">>, <<report_data.sketch>>,
                    <<"=HYPERLINK", report_data.commit_url, report_data.commit_hash>>>>)

write_memory_usage_data(cells, flash_column_letter, ram_column_letter, row_number, flash, ram) ==
    values_update(cells, flash_column_letter, ram_column_letter, row_number,
                  <<<<flash>>, <<ram>>>>)

-----------------------------------------------------------------------------
(* SpecTrends: report_size_trends run again and again on one sheet, from the empty
   sheet on, by two jobs.  A run is the sequence of its requests to the sheet; each
   request is a step, and the requests of the two jobs interleave. *)

MaxRuns == 2

Jobs == {"job 1", "job 2"}

\* The sketches reports of the runs: memory figures are written as their digits
TrendsReports ==
    [fqbn : {"arduino:avr:uno", "arduino:samd:mkrzero"},
     commit_hash : {"d8fd302", "a1b2c3d"},
     commit_url : {"https://example.com/commit"},
     sketch : {"examples/Foo"},
     flash : {"123", "456"},
     ram : {"42"}]

\* A job outside report_size_trends
NoRun ==
    [pc |-> "idle", report |-> None, heading_row_data |-> None, letters |-> None,
     current_row |-> None, requests |-> <<>>]

TrendsInit ==
    /\ spreadsheet = <<>>
    /\ jobs = [job \in Jobs |-> NoRun]
    /\ last_run = None
    /\ runs_done = 0
    /\ conflicting_runs = FALSE
    /\ PipelineIdle /\ ParseIdle /\ DeltaIdle /\ SortIdle
    /\ PathIdle /\ InstallIdle /\ FindIdle /\ SummaryIdle
    /\ ConstructIdle /\ ElapsedIdle /\ ColumnsIdle

otherThanTrends == <<pipelineVars, parseVars, deltaVars, sortVars, pathVars, installVars,
                     findVars, summaryVars, constructVars, elapsedVars, columnsVars>>

\* The locals of a run once it holds the heading row it goes on with:
\* get_data_column_letters, and where the run goes next
WithHeadingRow(run, heading_row_data, requests) ==
    LET letters == get_data_column_letters(run.report[1].fqbn, heading_row_data[1])
    IN  [run EXCEPT !.heading_row_data = heading_row_data,
                    !.letters = Some(letters),
                    !.requests = requests,
                    !.pc = IF letters.populated THEN "get_current_row"
                           ELSE "populate_data_column_headings"]

\* report_size_trends starts: the first request for the heading row
GetHeadingRowData(job) ==
    /\ jobs[job].pc = "idle"
    /\ runs_done < MaxRuns
    /\ \E report_data \in TrendsReports :
          LET heading_row_data == get_heading_row_data(spreadsheet)
              requests == <<Request("get_heading_row_data", <<>>, <<>>, heading_row_number,
                                    heading_row_data)>>
              run == [NoRun EXCEPT !.report = Some(report_data)]
          IN  /\ jobs' = [jobs EXCEPT ![job] =
                            IF heading_row_data = None
                            THEN [run EXCEPT !.requests = requests,
                                             !.pc = "populate_shared_data_headings"]
                            ELSE WithHeadingRow(run, heading_row_data, requests)]
              /\ conflicting_runs' =
                    (\/ conflicting_runs
                     \/ \E other \in Jobs \ {job} :
                           /\ jobs[other].pc # "idle"
                           /\ \/ jobs[other].report[1].fqbn # report_data.fqbn
                              \/ jobs[other].report[1].commit_hash # report_data.commit_hash)
    /\ runs_done' = runs_done + 1
    /\ UNCHANGED <<spreadsheet, last_run, otherThanTrends>>

\* The heading row was empty: the shared headings are written
PopulateSharedDataHeadings(job) ==
    /\ jobs[job].pc = "populate_shared_data_headings"
    /\ spreadsheet' = populate_shared_data_headings(spreadsheet)
    /\ jobs' = [jobs EXCEPT ![job].pc = "get_heading_row_data",
                            ![job].requests =
                                Append(@, Request("populate_shared_data_headings",
                                                  shared_data_first_column_letter,
                                                  shared_data_last_column_letter,
                                                  heading_row_number, None))]
    /\ UNCHANGED <<last_run, runs_done, conflicting_runs, otherThanTrends>>

\* ... and the heading row is read again
GetHeadingRowDataAgain(job) ==
    /\ jobs[job].pc = "get_heading_row_data"
    /\ LET heading_row_data == get_heading_row_data(spreadsheet)
       IN  jobs' = [jobs EXCEPT ![job] =
                       WithHeadingRow(@, heading_row_data,
                                      Append(@.requests,
                                             Request("get_heading_row_data", <<>>, <<>>,
                                                     heading_row_number, heading_row_data)))]
    /\ UNCHANGED <<spreadsheet, last_run, runs_done, conflicting_runs, otherThanTrends>>

\* No heading of the row read equals "<fqbn> flash": the headings of the board are
\* written
PopulateDataColumnHeadings(job) ==
    /\ jobs[job].pc = "populate_data_column_headings"
    /\ LET run == jobs[job]
       IN  /\ spreadsheet' = populate_data_column_headings(spreadsheet, run.report[1].fqbn,
                                                           run.letters[1].flash,
                                                           run.letters[1].ram)
           /\ jobs' = [jobs EXCEPT ![job].pc = "get_current_row",
                                   ![job].requests =
                                       Append(@, Request("populate_data_column_headings",
                                                         run.letters[1].flash,
                                                         run.letters[1].ram,
                                                         heading_row_number, None))]
    /\ UNCHANGED <<last_run, runs_done, conflicting_runs, otherThanTrends>>

\* get_current_row: the request for the commit hash column
GetCurrentRow(job) ==
    /\ jobs[job].pc = "get_current_row"
    /\ LET current_row == get_current_row(spreadsheet, jobs[job].report[1].commit_hash)
       IN  jobs' = [jobs EXCEPT ![job].current_row = Some(current_row),
                               ![job].pc = IF current_row.populated
                                           THEN "write_memory_usage_data"
                                           ELSE "create_row",
                               ![job].requests =
                                   Append(@, Request("get_current_row",
                                                     commit_hash_column_letter,
                                                     commit_hash_column_letter, 0,
                                                     values_get_column(
                                                         spreadsheet,
                                                         ColumnNumber(
                                                             commit_hash_column_letter))))]
    /\ UNCHANGED <<spreadsheet, last_run, runs_done, conflicting_runs, otherThanTrends>>

\* No cell of the column read equals the commit hash: the row is created
CreateRow(job) ==
    /\ jobs[job].pc = "create_row"
    /\ LET run == jobs[job]
       IN  /\ spreadsheet' = create_row(spreadsheet, run.current_row[1].number,
                                        run.report[1])
           /\ jobs' = [jobs EXCEPT ![job].pc = "write_memory_usage_data",
                                   ![job].requests =
                                       Append(@, Request("create_row",
                                                         shared_data_first_column_letter,
                                                         shared_data_last_column_letter,
                                                         run.current_row[1].number, None))]
    /\ UNCHANGED <<last_run, runs_done, conflicting_runs, otherThanTrends>>

\* The memory data is written and report_size_trends returns
WriteMemoryUsageData(job) ==
    /\ jobs[job].pc = "write_memory_usage_data"
    /\ LET run == jobs[job]
       IN  /\ spreadsheet' = write_memory_usage_data(spreadsheet, run.letters[1].flash,
                                                     run.letters[1].ram,
                                                     run.current_row[1].number,
                                                     run.report[1].flash, run.report[1].ram)
           /\ last_run' =
                 Some([job |-> job,
                       report |-> run.report[1],
                       requests |-> Append(run.requests,
                                           Request("write_memory_usage_data",
                                                   run.letters[1].flash, run.letters[1].ram,
                                                   run.current_row[1].number, None))])
    /\ jobs' = [jobs EXCEPT ![job] = NoRun]
    /\ UNCHANGED <<runs_done, conflicting_runs, otherThanTrends>>

TrendsNext ==
    \E job \in Jobs :
        \/ GetHeadingRowData(job)
        \/ PopulateSharedDataHeadings(job)
        \/ GetHeadingRowDataAgain(job)
        \/ PopulateDataColumnHeadings(job)
        \/ GetCurrentRow(job)
        \/ CreateRow(job)
        \/ WriteMemoryUsageData(job)

SpecTrends == TrendsInit /\ [][TrendsNext]_vars

-----------------------------------------------------------------------------
(* SpecColumns: get_data_column_letters applied to one heading row *)

MaxHeadings == 27

\* Heading rows: n headings of other boards, the one at a position (if any) replaced
\* by the flash heading of the board
HeadingRows(fqbn) ==
    {[i \in 1..n |-> IF i = position THEN <<fqbn, flash_heading_indicator>>
                     ELSE <<"other heading">>] :
        n \in 1..MaxHeadings, position \in 0..MaxHeadings}

ColumnsInit ==
    /\ heading_row_input \in {Some([fqbn |-> "fqbn", heading_row |-> row]) :
                                 row \in HeadingRows("fqbn")}
    /\ data_column_letters = None
    /\ PipelineIdle /\ ParseIdle /\ DeltaIdle /\ SortIdle
    /\ PathIdle /\ InstallIdle /\ FindIdle /\ SummaryIdle
    /\ ConstructIdle /\ ElapsedIdle /\ TrendsIdle

otherThanColumns == <<pipelineVars, parseVars, deltaVars, sortVars, pathVars, installVars,
                      findVars, summaryVars, constructVars, elapsedVars, trendsVars>>

GetDataColumnLetters ==
    /\ data_column_letters = None
    /\ data_column_letters' = Some(get_data_column_letters(heading_row_input[1].fqbn,
                                                           heading_row_input[1].heading_row))
    /\ UNCHANGED <<heading_row_input, otherThanColumns>>

ColumnsNext == GetDataColumnLetters

SpecColumns == ColumnsInit /\ [][ColumnsNext]_vars

-----------------------------------------------------------------------------
(* SpecOrder: get_sketches_report applied to the sketch reports of a list in
   another order *)

MaxOrdered == 3

\* Sketch reports of a run with deltas and warnings enabled: without deltas, with
\* numeric deltas, with deltas that are not applicable, and with numeric absolute
\* deltas whose relative delta is not applicable
OrderedSketchReports ==
    { SummarySketchReport(FailedFigures, None, TRUE),
      SummarySketchReport(Figures(1, 2, 4, 0), Some(Figures(2, 2, 4, 1)), TRUE),
      SummarySketchReport(Figures(2, 2, 4, 1), Some(Figures(1, 2, 4, 0)), TRUE),
      SummarySketchReport(Figures(2, 2, 4, 1), Some(FailedFigures), TRUE),
      SummarySketchReport(FiguresWithoutMaximum(3, 1, 1), Some(Figures(1, 2, 4, 0)), TRUE) }

\* The orders a list of n sketch reports can be given in
Orderings(n) == {order \in [1..n -> 1..n] : \A i, j \in 1..n : order[i] = order[j] => i = j}

Reordered(list, order) == [i \in DOMAIN list |-> list[order[i]]]

OrderInit ==
    /\ summary_input \in {Some(list) : list \in SeqsUpTo(OrderedSketchReports, MaxOrdered)}
    /\ sizes_summary = None
    /\ warnings_summary = None
    /\ sketches_report = None
    /\ PipelineIdle /\ ParseIdle /\ DeltaIdle /\ SortIdle
    /\ PathIdle /\ InstallIdle /\ FindIdle /\ ConstructIdle
    /\ ElapsedIdle /\ ColumnsIdle /\ TrendsIdle

\* get_sketches_report and the two summaries it asks for, given the sketch reports of
\* summary_input in some order
GetSketchesReportReordered ==
    /\ sketches_report = None
    /\ \E order \in Orderings(Len(summary_input[1])) :
          LET sketch_reports == Reordered(summary_input[1], order)
          IN  /\ sizes_summary' = Some(get_sizes_summary_report(sketch_reports))
              /\ warnings_summary' = Some(get_warnings_summary_report(sketch_reports))
              /\ sketches_report' = Some(get_sketches_report(sketch_reports))
    /\ UNCHANGED <<summary_input, otherThanSummary>>

OrderNext == GetSketchesReportReordered

SpecOrder == OrderInit /\ [][OrderNext]_vars

-----------------------------------------------------------------------------
(* Claims about the run (Spec) *)

FindSketchesReturned == \E i \in 1..Len(history) : history[i].op = "find_sketches"

\* Positions in history of the compilations of the sketch at an index of sketch_list,
\* current or baseline pass.
Compilations(index, baseline) ==
    {i \in 1..Len(history) : /\ history[i].op = "compile"
                             /\ history[i].index = index
                             /\ history[i].baseline = baseline}

SomeCurrentCompilationFailed ==
    \E i \in 1..Len(history) : /\ history[i].op = "compile"
                               /\ ~history[i].baseline
                               /\ history[i].returncode # 0

ReportFilePosition == {i \in 1..Len(history) : history[i].op = "report_file"}

\* C1: once find_sketches has returned, the report file is written only after every
\* sketch of the list was compiled at the current revision (also after an earlier one
\* failed) and holds one entry per sketch, in order; the process ends only after the
\* file is written, with status 1 if and only if a current-revision compilation
\* failed and with status 0 if and only if all succeeded.
C1_ReportAfterEverySketchThenExit ==
    /\ report_file # None =>
          LET sketches == report_file[1].boards[1].sketches
          IN  /\ Len(sketches) = Len(sketch_list)
              /\ \A k \in 1..Len(sketch_list) :
                    /\ Cardinality(Compilations(k, FALSE)) = 1
                    /\ \A i \in Compilations(k, FALSE) :
                          /\ history[i].sketch = sketch_list[k]
                          /\ \A j \in ReportFilePosition : i < j
                          /\ sketches[k].name = sketch_list[k]
                          /\ sketches[k].compilation_success = (history[i].returncode = 0)
    /\ (exit_status # None /\ FindSketchesReturned) =>
          /\ pc = "done"
          /\ report_file # None
          /\ (exit_status = Some(1)) = SomeCurrentCompilationFailed
          /\ (exit_status = Some(0)) = ~SomeCurrentCompilationFailed

\* C1 witness: the first sketch failed, the second was still compiled and succeeded,
\* the report holds both and the process ended with status 1.
C1_Witness ==
    /\ pc = "done"
    /\ exit_status = Some(1)
    /\ report_file # None
    /\ Len(sketch_list) >= 2
    /\ Len(report_file[1].boards[1].sketches) = Len(sketch_list)
    /\ ~report_file[1].boards[1].sketches[1].compilation_success
    /\ report_file[1].boards[1].sketches[2].compilation_success

\* What a finished sketch report says about the current pass having produced a figure.
HasCurrentFigure(report) ==
    \/ \E j \in 1..Len(report.sizes) :
          report.sizes[j].current.absolute # not_applicable_indicator
    \/ /\ "warnings" \in DOMAIN report
       /\ report.warnings.current.absolute # not_applicable_indicator

\* C2: for every sketch whose report is finished, the baseline pass was entered (the
\* sketch was compiled at the base ref) if and only if deltas are enabled, the current
\* compilation succeeded, and a current size is not N/A or the warning count is
\* reported and not N/A.
C2_BaselinePassIffDeltasSuccessAndFigure ==
    \A k \in 1..Len(sketch_report_list) :
        LET report == sketch_report_list[k]
        IN  (Compilations(k, TRUE) # {})
              = (/\ enable_deltas_report
                 /\ report.compilation_success
                 /\ HasCurrentFigure(report))

\* C2 witness: a successful sketch with no size figure at all entered the baseline pass
\* on the strength of its warning count, and another successful sketch of a run did not.
C2_Witness ==
    \E k \in 1..Len(sketch_report_list) :
        LET report == sketch_report_list[k]
        IN  /\ report.compilation_success
            /\ \A j \in 1..Len(report.sizes) :
                  report.sizes[j].current.absolute = not_applicable_indicator
            /\ Compilations(k, TRUE) # {}
            /\ "warnings" \in DOMAIN report

IsCheckout(event, sketch, ref) ==
    event.op = "checkout" /\ event.sketch = sketch /\ event.ref = ref

\* C3: every baseline compilation is directly preceded by the recording of HEAD and
\* then the checkout of the base ref, compiles the sketch of the current pass, and is
\* directly followed by the checkout of the recorded revision whatever its result;
\* every current-pass compilation runs at the original revision, every baseline
\* compilation at the base ref, and the run ends at the original revision.
C3_BaselineProtocolAndRestore ==
    /\ \A i \in 1..Len(history) :
          history[i].op = "compile" =>
              IF history[i].baseline
              THEN /\ history[i].ref = deltas_base_ref
                   /\ deltas_base_ref \in {BaseRef, ParentCommitRef}
                   /\ i >= 4
                   /\ history[i - 3].op = "compile"
                   /\ ~history[i - 3].baseline
                   /\ history[i - 3].sketch = history[i].sketch
                   /\ history[i - 2].op = "head"
                   /\ history[i - 2].ref = HeadCommit
                   /\ IsCheckout(history[i - 1], history[i].sketch, deltas_base_ref)
                   /\ IF i < Len(history)
                      THEN IsCheckout(history[i + 1], history[i].sketch, history[i - 2].ref)
                      ELSE pc = "checkout_original"
              ELSE history[i].ref = HeadCommit
    /\ pc \in {"compile_sketch", "create_report", "exit", "done"} => head = HeadCommit

\* C3 witness: a baseline compilation failed, the original revision was checked out
\* again and the next sketch was compiled at it; the run has ended.
C3_Witness ==
    /\ pc = "done"
    /\ head = HeadCommit
    /\ \E i \in 1..Len(history) :
          /\ history[i].op = "compile"
          /\ history[i].baseline
          /\ history[i].returncode # 0
          /\ i + 2 <= Len(history)
          /\ IsCheckout(history[i + 1], history[i].sketch, HeadCommit)
          /\ history[i + 2].op = "compile"
          /\ ~history[i + 2].baseline
          /\ history[i + 2].ref = HeadCommit

-----------------------------------------------------------------------------
(* Claims about the output parsers (SpecSizes) *)

\* The number the first line of the output matching the expression carries, read
\* digit by digit; None when no line matches.
FirstMatch(output, phrase, needs_maximum) ==
    LET hits == {i \in 1..Len(output) :
                    output[i].phrase = phrase /\ (needs_maximum => output[i].maximum # <<>>)}
    IN  IF hits = {} THEN None
        ELSE Some(output[CHOOSE i \in hits : \A j \in hits : i <= j])

\* C5: after a successful compilation, for each memory type, the reported absolute is
\* the byte count n >= 0 of the usage line and the reported maximum is the m >= 0 of the
\* "Maximum is m bytes" clause; without such a clause the absolute stays numeric and
\* only maximum and relative are N/A.
C5_AbsoluteAndMaximumAreTheNumbersOfTheOutput ==
    (parsed_sizes # None /\ parse_input[1].success) =>
        \A t \in 1..Len(memory_types) :
            LET size == parsed_sizes[1][t]
                usage == FirstMatch(parse_input[1].output, memory_types[t].regex, FALSE)
                limit == FirstMatch(parse_input[1].output, memory_types[t].regex, TRUE)
            IN  /\ usage # None => size.absolute = Num(int(usage[1].used))
                /\ limit # None => size.maximum = Num(int(limit[1].maximum))
                /\ (usage # None /\ limit = None) =>
                      /\ IsNum(size.absolute)
                      /\ size.maximum = not_applicable_indicator
                      /\ size.relative = not_applicable_indicator

\* C6: in every size figure of get_sizes_from_output, relative is N/A whenever absolute
\* or maximum is N/A (never 0 in their place), and otherwise is the multiple of 0.01
\* nearest to 100 * absolute / maximum.
C6_RelativeIsNotApplicableOrRoundedRatio ==
    parsed_sizes # None =>
        \A t \in 1..Len(parsed_sizes[1]) :
            LET size == parsed_sizes[1][t]
            IN  IF \/ size.absolute = not_applicable_indicator
                   \/ size.maximum = not_applicable_indicator
                THEN size.relative = not_applicable_indicator
                ELSE /\ IsNum(size.relative)
                     /\ LET error == Val(size.relative) * Val(size.maximum)
                                       - 10000 * Val(size.absolute)
                        IN  2 * error <= Val(size.maximum) /\ -2 * error <= Val(size.maximum)

\* C6 witness: one memory type has an absolute figure but no maximum, so no relative;
\* the other has both and a ratio that needed rounding.
C6_Witness ==
    /\ parsed_sizes # None
    /\ \E t \in 1..Len(parsed_sizes[1]) :
          /\ IsNum(parsed_sizes[1][t].absolute)
          /\ parsed_sizes[1][t].maximum = not_applicable_indicator
          /\ parsed_sizes[1][t].relative = not_applicable_indicator
    /\ \E t \in 1..Len(parsed_sizes[1]) :
          /\ IsNum(parsed_sizes[1][t].relative)
          /\ Val(parsed_sizes[1][t].relative) * Val(parsed_sizes[1][t].maximum)
                # 10000 * Val(parsed_sizes[1][t].absolute)

\* C7: the compilation succeeded exactly when the exit status is 0, whatever the
\* output; after a failed one every size figure of every memory type is N/A and the
\* warning count is N/A.
C7_FailedCompilationGivesNotApplicable ==
    /\ parse_input # None => parse_input[1].success = (compilation_data.returncode = 0)
    /\ (parsed_sizes # None /\ compilation_data.returncode # 0) =>
          \A t \in 1..Len(memory_types) :
              /\ parsed_sizes[1][t].absolute = not_applicable_indicator
              /\ parsed_sizes[1][t].maximum = not_applicable_indicator
              /\ parsed_sizes[1][t].relative = not_applicable_indicator
    /\ (parsed_warning_count # None /\ compilation_data.returncode # 0) =>
          parsed_warning_count[1] = not_applicable_indicator

\* C7 witness: a failed compilation whose output holds a complete size line and a
\* warning was parsed by both parsers.
C7_Witness ==
    /\ compilation_data.returncode # 0
    /\ parsed_sizes # None
    /\ parsed_warning_count = Some(not_applicable_indicator)
    /\ \E i \in 1..Len(compilation_data.stdout) :
          /\ compilation_data.stdout[i].phrase \in SizePhrases
          /\ int(compilation_data.stdout[i].used) > 0
          /\ int(compilation_data.stdout[i].maximum) > 0
    /\ \E i \in 1..Len(compilation_data.stdout) : compilation_data.stdout[i].phrase = "warning"

-----------------------------------------------------------------------------
(* Claims about the deltas (SpecDelta) *)

\* current - previous when both are numbers, N/A otherwise
ExpectedAbsoluteDelta(current, previous) ==
    IF IsNum(current) /\ IsNum(previous)
    THEN Num(Val(current) - Val(previous))
    ELSE not_applicable_indicator

\* C4: with baseline data, the absolute delta of a size and of the warning count is
\* current minus previous when both are numbers and N/A otherwise; a size's relative
\* delta is N/A when the absolute delta or the maximum is N/A and otherwise the multiple
\* of 0.01 nearest to 100 * absolute delta / maximum.
C4_DeltasFromAbsoluteFigures ==
    /\ (size_report # None /\ delta_input.previous_size # None) =>
          LET report == size_report[1]
              expected == ExpectedAbsoluteDelta(delta_input.current_size.absolute,
                                                delta_input.previous_size[1].absolute)
          IN  /\ report.delta.absolute = expected
              /\ IF \/ expected = not_applicable_indicator
                    \/ delta_input.current_size.maximum = not_applicable_indicator
                 THEN report.delta.relative = not_applicable_indicator
                 ELSE /\ IsNum(report.delta.relative)
                      /\ LET maximum == Val(delta_input.current_size.maximum)
                             error == Val(report.delta.relative) * maximum
                                        - 10000 * Val(expected)
                         IN  2 * error <= maximum /\ -2 * error <= maximum
    /\ (warnings_report # None /\ delta_input.previous_warnings # None) =>
          warnings_report[1].delta.absolute
              = ExpectedAbsoluteDelta(delta_input.current_warnings,
                                      delta_input.previous_warnings)

\* C4 witness: both reports were made with numeric deltas, and the relative delta
\* differs from the difference of the current and previous percentages of the same
\* maximum.
C4_Witness ==
    /\ size_report # None
    /\ warnings_report # None
    /\ delta_input.previous_size # None
    /\ delta_input.previous_warnings # None
    /\ IsNum(warnings_report[1].delta.absolute)
    /\ IsNum(size_report[1].delta.relative)
    /\ delta_input.previous_size[1].maximum = delta_input.current_size.maximum
    /\ Val(size_report[1].delta.relative)
          # Val(size_report[1].current.relative) - Val(size_report[1].previous.relative)

-----------------------------------------------------------------------------
(* Claims about the dependency lists (SpecSort) *)

SourceTypes == {"manager", "path", "repository", "download"}

\* The URL, with any number of trailing slashes taken off, ends in ".git", or the URL
\* starts with "git://".
IsRepositoryUrl(url) ==
    \/ \E k \in 0..Len(url) :
          LET n == Len(url) - k
          IN  /\ \A i \in (n + 1)..Len(url) : url[i] = "/"
              /\ n >= 4
              /\ <<url[n - 3], url[n - 2], url[n - 1], url[n]>> = <<".", "g", "i", "t">>
    \/ /\ Len(url) >= 6
       /\ <<url[1], url[2], url[3], url[4], url[5], url[6]>>
             = <<"g", "i", "t", ":", "/", "/">>

\* The URL matches */package_*index.json in the sense of the source's expression: it
\* holds "/package_", later "index", one character, and "json", with no line feed
\* where the expression allows any character.
IsPackageIndexUrl(url) ==
    \E i, j \in 1..Len(url) :
        /\ i + 9 <= j
        /\ j + 9 <= Len(url)
        /\ SubSeq(url, i, i + 8) = <<"/", "p", "a", "c", "k", "a", "g", "e", "_">>
        /\ SubSeq(url, j, j + 4) = <<"i", "n", "d", "e", "x">>
        /\ SubSeq(url, j + 6, j + 9) = <<"j", "s", "o", "n">>
        /\ \A k \in (1..(i - 1)) \cup ((i + 9)..(j - 1)) \cup {j + 5} : url[k] # "\n"

\* The ordered rule
ExpectedSourceType(dependency) ==
    IF "source-url" \in DOMAIN dependency
    THEN IF IsRepositoryUrl(dependency["source-url"]) THEN "repository"
         ELSE IF IsPackageIndexUrl(dependency["source-url"]) THEN "manager"
         ELSE "download"
    ELSE IF "source-path" \in DOMAIN dependency THEN "path"
    ELSE "manager"

\* The declarations of the list that are not None and that the rule gives the type,
\* in the order of the list
ExpectedBucket(dependencies, type) ==
    LET Chosen(entry) == entry # None /\ ExpectedSourceType(entry[1]) = type
        chosen == SelectSeq(dependencies, Chosen)
    IN  [i \in 1..Len(chosen) |-> chosen[i][1]]

\* C8: each bucket of sort_dependency_list holds, in input order, exactly the
\* declarations that are not None and that the ordered rule (source-url first:
\* repository, package index, download; then source-path; then manager) assigns to it.
C8_BucketsFollowOrderedRule ==
    sorted_dependencies # None =>
        \A type \in SourceTypes :
            sorted_dependencies[1][type] = ExpectedBucket(dependency_list, type)

\* C8 witness: a declaration with source-url and source-path was put, by its URL, in the
\* repository bucket, ahead of a different declaration that follows it in the list.
C8_Witness ==
    /\ sorted_dependencies # None
    /\ \E i, j \in DOMAIN dependency_list :
          /\ i < j
          /\ dependency_list[i] # None
          /\ dependency_list[j] # None
          /\ {"source-url", "source-path"} \subseteq DOMAIN dependency_list[i][1]
          /\ "source-url" \in DOMAIN dependency_list[j][1]
          /\ dependency_list[i][1]["source-url"] # dependency_list[j][1]["source-url"]
          /\ sorted_dependencies[1].repository
                = <<dependency_list[i][1], dependency_list[j][1]>>

\* Positions of the list holding the entry
Positions(dependencies, entry) ==
    {i \in DOMAIN dependencies : dependencies[i] = entry}

\* How many times the declaration stands in the four buckets together
BucketOccurrences(sorted, dependency) ==
    Cardinality(Positions(sorted.manager, dependency))
      + Cardinality(Positions(sorted.path, dependency))
      + Cardinality(Positions(sorted.repository, dependency))
      + Cardinality(Positions(sorted.download, dependency))

\* C9 as stated: a declaration that is None or empty is in no bucket, and every other
\* declaration is in exactly one bucket.
C9_NoneOrEmptyDropped ==
    sorted_dependencies # None =>
        \A i \in DOMAIN dependency_list :
            LET entry == dependency_list[i]
            IN  IF entry = None THEN TRUE
                ELSE IF DOMAIN entry[1] = {}
                THEN BucketOccurrences(sorted_dependencies[1], entry[1]) = 0
                ELSE BucketOccurrences(sorted_dependencies[1], entry[1])
                        = Cardinality(Positions(dependency_list, entry))

\* C9 amended: only None is dropped. The buckets together hold as many declarations as
\* the list has entries that are not None, each of these entries (an empty declaration
\* included) is in exactly one bucket, and an empty declaration is in the manager bucket.
C9_OnlyNoneDropped ==
    sorted_dependencies # None =>
        LET sorted == sorted_dependencies[1]
        IN  /\ Len(sorted.manager) + Len(sorted.path)
                 + Len(sorted.repository) + Len(sorted.download)
                  = Cardinality({i \in DOMAIN dependency_list : dependency_list[i] # None})
            /\ \A i \in DOMAIN dependency_list :
                  LET entry == dependency_list[i]
                  IN  entry # None =>
                         /\ BucketOccurrences(sorted, entry[1])
                               = Cardinality(Positions(dependency_list, entry))
                         /\ DOMAIN entry[1] = {} =>
                               Cardinality(Positions(sorted.manager, entry[1]))
                                  = Cardinality(Positions(dependency_list, entry))

\* C9 witness: the list held None, an empty declaration and a declaration with a name;
\* the manager bucket holds the empty declaration.
C9_Witness ==
    /\ sorted_dependencies # None
    /\ \E i, j, k \in DOMAIN dependency_list :
          /\ dependency_list[i] = None
          /\ dependency_list[j] # None
          /\ DOMAIN dependency_list[j][1] = {}
          /\ dependency_list[k] # None
          /\ "name" \in DOMAIN dependency_list[k][1]
    /\ \E m \in DOMAIN sorted_dependencies[1].manager :
          DOMAIN sorted_dependencies[1].manager[m] = {}

-----------------------------------------------------------------------------
(* Claims about the installation path (SpecPath) *)

\* The characters of the name before its first colon
VendorOf(name) ==
    LET colons == {i \in DOMAIN name : name[i] = ":"}
    IN  SubSeq(name, 1, (CHOOSE i \in colons : \A j \in colons : i <= j) - 1)

\* The characters of the name after its last colon
ArchitectureOf(name) ==
    LET colons == {i \in DOMAIN name : name[i] = ":"}
    IN  SubSeq(name, (CHOOSE i \in colons : \A j \in colons : j <= i) + 1, Len(name))

\* Positions of the installed platforms whose identifier is the name
InstalledAs(installed, name) == {i \in DOMAIN installed : installed[i].id = name}

\* C10: is_overwrite is true exactly when an installed platform has the platform's name
\* as identifier; the path is then packages/<vendor>/hardware/<architecture>/<version>
\* of the data directory with the version of the first such platform, and otherwise
\* <sketchbook>/hardware/<vendor>/<architecture>.
C10_OverwriteIffInstalled ==
    platform_installation_path # None =>
        LET result == platform_installation_path[1]
            name == path_input[1].platform["name"]
            installed == path_input[1].installed
            matching == InstalledAs(installed, name)
        IN  /\ result.is_overwrite <=> matching # {}
            /\ matching # {} =>
                  LET first == CHOOSE i \in matching : \A j \in matching : i <= j
                  IN  result.path = <<"home", ".arduino15", "packages", VendorOf(name),
                                      "hardware", ArchitectureOf(name),
                                      installed[first].version>>
            /\ matching = {} =>
                  result.path = <<"home", "Arduino", "hardware", VendorOf(name),
                                  ArchitectureOf(name)>>

\* C10 witness: the platform is listed twice as installed, with different versions, and
\* the path ends in the version listed first.
C10_Witness ==
    /\ platform_installation_path # None
    /\ platform_installation_path[1].is_overwrite
    /\ \E i, j \in DOMAIN path_input[1].installed :
          /\ i < j
          /\ path_input[1].installed[i].id = path_input[1].platform["name"]
          /\ path_input[1].installed[j].id = path_input[1].platform["name"]
          /\ path_input[1].installed[i].version # path_input[1].installed[j].version
          /\ platform_installation_path[1].path[7] = path_input[1].installed[i].version

-----------------------------------------------------------------------------
(* Claims about install_platforms (SpecInstall) *)

InstallationsOf(name) == {f \in platform_files : f.platform = name}

InSketchbook(f) ==
    /\ Len(f.path) >= Len(user_platforms_path)
    /\ SubSeq(f.path, 1, Len(user_platforms_path)) = user_platforms_path

\* C11: at every point of install_platforms, whatever the mix of manager, path,
\* repository and download dependencies and however often a platform is declared,
\* at most one installation of each platform identifier is on disk, and a platform
\* the package manager lists as installed has no installation in the sketchbook: an
\* installation from a path, a repository or a download took the place of the one
\* of the package manager.
C11_AtMostOneInstallationPerPlatform ==
    \A name \in InstallNames :
        /\ Cardinality(InstallationsOf(name)) <= 1
        /\ InstalledAs(installed_platforms, name) # {}
              => \A f \in InstallationsOf(name) : ~InSketchbook(f)

\* install_platforms has returned, and a platform the package manager installed has
\* been replaced in place by an installation that is not of the package manager.
C11_Witness ==
    /\ install_pc = "installed"
    /\ \E name \in InstallNames :
          /\ InstalledAs(installed_platforms, name) # {}
          /\ \E f \in InstallationsOf(name) : f.source # "manager" /\ ~InSketchbook(f)

InstallEvents(ops) == {i \in 1..Len(install_history) : install_history[i].op \in ops}

ResolverCalls == InstallEvents({"get_platform_installation_path"})

ExpectedStageRank(kind) ==
    CASE kind = "manager" -> 1
      [] kind = "path" -> 2
      [] kind = "repository" -> 3
      [] kind = "download" -> 4

\* C12: the installations and the calls of get_platform_installation_path happen in
\* the order manager, path, repository, download; a call of the resolver comes after
\* the installation of every manager platform and after every core install command;
\* no path, repository or download dependency has the resolver called twice, and
\* once install_platforms has returned each has had it called exactly once.
C12_ManagerInstallsFirstResolverOncePerDependency ==
    /\ \A i, j \in InstallEvents({"install", "get_platform_installation_path"}) :
          i < j => ExpectedStageRank(install_history[i].kind)
                      <= ExpectedStageRank(install_history[j].kind)
    /\ \A r \in ResolverCalls :
          /\ install_history[r].kind # "manager"
          /\ Cardinality({i \in InstallEvents({"install"}) :
                             i < r /\ install_history[i].kind = "manager"})
                = Len(platform_list[1].manager)
          /\ \A i \in InstallEvents({"command"}) :
                install_history[i].command = "core install" => i < r
          /\ \A q \in ResolverCalls :
                /\ install_history[q].kind = install_history[r].kind
                /\ install_history[q].index = install_history[r].index
                => q = r
    /\ install_pc = "installed" =>
          \A kind \in {"path", "repository", "download"} :
              \A index \in 1..Len(platform_list[1][kind]) :
                  \E r \in ResolverCalls : /\ install_history[r].kind = kind
                                           /\ install_history[r].index = index

\* install_platforms has returned after installing a manager platform and platforms
\* of two of the other kinds.
C12_Witness ==
    /\ install_pc = "installed"
    /\ Len(platform_list[1].manager) >= 1
    /\ Cardinality({kind \in {"path", "repository", "download"} :
                       Len(platform_list[1][kind]) >= 1}) >= 2
    /\ Cardinality(ResolverCalls) >= 2

-----------------------------------------------------------------------------
(* Claims about find_sketches and path_is_sketch (SpecFind) *)

FindTree == find_input[1].tree
FindPaths == find_input[1].sketch_paths

\* The folders among a path and everything below it that qualify as a sketch
SketchFoldersAt(path) ==
    {folder \in {path} \cup rglob(FindTree, path) :
        is_dir(FindTree, folder) /\ path_is_sketch(FindTree, folder)}

\* The three reasons find_sketches has to end the process for a path
FailingSketchPath(path) ==
    \/ ~exists(FindTree, path)
    \/ is_file(FindTree, path) /\ suffix(path[Len(path)]) \notin sketch_extensions
    \/ is_dir(FindTree, path) /\ SketchFoldersAt(path) = {}

\* What a path has to contribute to the list
ContributionOf(path) ==
    IF is_file(FindTree, path) THEN {parent(path)} ELSE SketchFoldersAt(path)

\* C13: find_sketches ends the process with status 1 when one of the sketch paths
\* does not exist, is a file without a sketch extension, or is a folder with no
\* sketch in it or below it; when it returns, each sketch path has at least one of
\* its sketches in the list.
C13_ExitOnFailingPathElseEveryPathContributes ==
    find_result # None =>
        /\ find_result[1].exit \in {None, Some(1)}
        /\ (\E i \in DOMAIN FindPaths : FailingSketchPath(FindPaths[i]))
              => find_result[1].exit = Some(1)
        /\ find_result[1].exit = None =>
              \A i \in DOMAIN FindPaths :
                  \E k \in DOMAIN find_result[1].sketch_list :
                      find_result[1].sketch_list[k] \in ContributionOf(FindPaths[i])

\* find_sketches ended the process at the second path, a folder with no sketch in
\* it or below it, after a first path with a sketch.
C13_Witness ==
    /\ find_result # None
    /\ find_result[1].exit = Some(1)
    /\ Len(FindPaths) = 2
    /\ ~FailingSketchPath(FindPaths[1])
    /\ is_dir(FindTree, FindPaths[2])
    /\ SketchFoldersAt(FindPaths[2]) = {}

\* The paths of a set in ascending order
Ascending(paths) ==
    CHOOSE seq \in [1..Cardinality(paths) -> paths] :
        \A i, j \in 1..Cardinality(paths) : i < j => path_less(seq[i], seq[j])

\* The matches of a sketch path as C14 states them
ExpectedMatches(path) ==
    IF is_file(FindTree, path) THEN <<parent(path)>>
    ELSE (IF path_is_sketch(FindTree, path) THEN <<path>> ELSE <<>>)
            \o Ascending(SketchFoldersAt(path) \ {path})

RECURSIVE ExpectedSketchList(_)
ExpectedSketchList(paths) ==
    IF paths = <<>> THEN <<>>
    ELSE ExpectedMatches(Head(paths)) \o ExpectedSketchList(Tail(paths))

\* C14: the list find_sketches returns is the concatenation, in the order of the
\* sketch paths, of the matches of each path: for a sketch file its parent folder
\* and nothing else, for a folder the folder itself if it is a sketch and then the
\* folders below it that are sketches, in ascending order of their paths.
C14_ListIsConcatenationOfMatchesInOrder ==
    (find_result # None /\ find_result[1].exit = None)
        => find_result[1].sketch_list = ExpectedSketchList(FindPaths)

\* find_sketches returned for a sketch file whose folder has a sketch below it and
\* for a folder that is a sketch with two sketches below it.
C14_Witness ==
    /\ find_result # None
    /\ find_result[1].exit = None
    /\ \E i \in DOMAIN FindPaths :
          /\ is_file(FindTree, FindPaths[i])
          /\ SketchFoldersAt(parent(FindPaths[i])) \ {parent(FindPaths[i])} # {}
    /\ \E i \in DOMAIN FindPaths :
          /\ is_dir(FindTree, FindPaths[i])
          /\ path_is_sketch(FindTree, FindPaths[i])
          /\ Cardinality(SketchFoldersAt(FindPaths[i]) \ {FindPaths[i]}) >= 2

\* The files directly in a folder that have a sketch extension
SketchFilesIn(folder) ==
    {file \in FindTree.files :
        parent(file) = folder /\ suffix(file[Len(file)]) \in sketch_extensions}

\* C15: a folder qualifies as a sketch if and only if a file with the extension
\* .ino or .pde is directly in it.
C15_FolderIsSketchIffItHoldsSketchFile ==
    find_result # None =>
        \A folder \in FindTree.dirs \cup {<<>>} :
            path_is_sketch(FindTree, folder) <=> SketchFilesIn(folder) # {}

-----------------------------------------------------------------------------
(* Claims about the summaries (SpecSummary) *)

\* The absolute deltas of a memory type, in the order of the sketch reports that
\* carry one for it
RECURSIVE SizeDeltasOf(_, _)
SizeDeltasOf(name, sketch_reports) ==
    IF sketch_reports = <<>> THEN <<>>
    ELSE LET carrying == SelectSeq(Head(sketch_reports).sizes,
                                   LAMBDA entry : entry.name = name
                                                    /\ "delta" \in DOMAIN entry)
         IN  [i \in DOMAIN carrying |-> carrying[i].delta.absolute]
                \o SizeDeltasOf(name, Tail(sketch_reports))

\* The warnings deltas, in the order of the sketch reports that carry one
RECURSIVE WarningsDeltasOf(_)
WarningsDeltasOf(sketch_reports) ==
    IF sketch_reports = <<>> THEN <<>>
    ELSE (IF /\ "warnings" \in DOMAIN Head(sketch_reports)
             /\ "delta" \in DOMAIN Head(sketch_reports).warnings
          THEN <<Head(sketch_reports).warnings.delta.absolute>>
          ELSE <<>>) \o WarningsDeltasOf(Tail(sketch_reports))

NumericOf(deltas) == {Val(deltas[i]) : i \in {j \in DOMAIN deltas : IsNum(deltas[j])}}

Smallest(numbers) == CHOOSE n \in numbers : \A m \in numbers : n <= m
Largest(numbers) == CHOOSE n \in numbers : \A m \in numbers : m <= n

\* The bounds a list of deltas, not empty, has to give
ExpectedBounds(deltas) ==
    IF NumericOf(deltas) = {}
    THEN [minimum |-> not_applicable_indicator, maximum |-> not_applicable_indicator]
    ELSE [minimum |-> Num(Smallest(NumericOf(deltas))),
          maximum |-> Num(Largest(NumericOf(deltas)))]

\* C16: for each memory type of the sizes summary with a sketch report that carries
\* a delta for it, delta.absolute.minimum and delta.absolute.maximum are the smallest
\* and the largest numeric absolute delta of these reports, whatever deltas that are
\* not applicable stand before, between or after them, and both are not applicable
\* only when every one of these deltas is not applicable.
C16_SizeBoundsAreNumericExtremes ==
    sizes_summary # None =>
        \A i \in DOMAIN sizes_summary[1] :
            LET deltas == SizeDeltasOf(sizes_summary[1][i].name, summary_input[1])
            IN  deltas # <<>> =>
                    /\ "delta" \in DOMAIN sizes_summary[1][i]
                    /\ sizes_summary[1][i].delta.absolute = ExpectedBounds(deltas)

\* The summary was made of three reports with a delta for a memory type: the first
\* not applicable, the others two different numbers.
C16_Witness ==
    /\ sizes_summary # None
    /\ \E i \in DOMAIN sizes_summary[1] :
          LET deltas == SizeDeltasOf(sizes_summary[1][i].name, summary_input[1])
          IN  /\ Len(deltas) = 3
              /\ deltas[1] = not_applicable_indicator
              /\ Cardinality(NumericOf(deltas)) = 2

NoSizeDelta ==
    \A i \in DOMAIN summary_input[1] :
        \A j \in DOMAIN summary_input[1][i].sizes :
            "delta" \notin DOMAIN summary_input[1][i].sizes[j]

\* C17: when no sketch report carries a delta for any memory type,
\* get_sizes_summary_report returns the empty list and the board of the sketches
\* report has no sizes summary.
C17_NoDeltasGivesEmptySizesSummary ==
    (sketches_report # None /\ NoSizeDelta) =>
        /\ sizes_summary[1] = <<>>
        /\ "sizes" \notin DOMAIN sketches_report[1].boards[1]

\* C18: get_warnings_summary_report returns the empty object exactly when no sketch
\* report carries a warnings delta; otherwise minimum and maximum are the smallest
\* and the largest numeric warnings delta, a delta that is not applicable being a
\* bound only as long as no numeric delta came before or after it.
C18_WarningsBoundsAreNumericExtremes ==
    warnings_summary # None =>
        LET deltas == WarningsDeltasOf(summary_input[1])
        IN  /\ warnings_summary[1] = None <=> deltas = <<>>
            /\ deltas # <<>> =>
                  warnings_summary[1][1].delta.absolute = ExpectedBounds(deltas)

\* The summary was made of three reports with a warnings delta: not applicable, a
\* number, not applicable.
C18_Witness ==
    /\ warnings_summary # None
    /\ LET deltas == WarningsDeltasOf(summary_input[1])
       IN  /\ Len(deltas) = 3
           /\ deltas[1] = not_applicable_indicator
           /\ IsNum(deltas[2])
           /\ deltas[3] = not_applicable_indicator

-----------------------------------------------------------------------------
(* Claims about __init__ (Spec) *)

Malformed(boolean_input) ==
    lower(boolean_input) \notin { <<"t", "r", "u", "e">>, <<"f", "a", "l", "s", "e">> }

\* Nothing was installed or compiled and no report file was written
NoWorkDone ==
    /\ \A i \in 1..Len(history) : history[i].op \notin {"install", "compile"}
    /\ report_file = None

\* C19: once __init__ is over, a malformed value of verbose, enable-deltas-report or
\* enable-warnings-report has ended the process with status 1 before any
\* installation, compilation or report file.
C19_MalformedBooleanInputIsFatal ==
    (/\ pc # "construct"
     /\ \/ Malformed(construct_input[1].verbose)
        \/ Malformed(construct_input[1].enable_deltas_report)
        \/ Malformed(construct_input[1].enable_warnings_report))
        => (exit_status = Some(1) /\ pc = "done" /\ NoWorkDone)

RepositoryLookupFailed ==
    \E i \in 1..Len(history) : history[i].op = "get_repo" /\ ~history[i].found

\* The base ref was asked for: __init__ came to get_deltas_base_ref, which it does
\* with deltas enabled once enable-warnings-report was found valid
BaseRefResolution ==
    /\ pc # "construct"
    /\ enable_deltas_report
    /\ ~Malformed(construct_input[1].enable_warnings_report)

-----------------------------------------------------------------------------
(* Claims about a run with deltas disabled (Spec) *)

DeltasDisabled == parse_boolean_input(construct_input[1].enable_deltas_report) = Some(FALSE)

\* The reports are complete: the loop of compile_sketches is over
LoopOver == pc \in {"create_report", "exit"} \/ report_file # None

\* No size entry and no warnings entry of the report has a previous or a delta key
NoPreviousOrDelta(report) ==
    /\ \A j \in 1..Len(report.sizes) :
          {"previous", "delta"} \cap DOMAIN report.sizes[j] = {}
    /\ "warnings" \in DOMAIN report =>
          {"previous", "delta"} \cap DOMAIN report.warnings = {}

\* C21: when enable-deltas-report is false, whatever the number of sketches and the
\* results of the compilations, the base ref is never resolved (no request for the
\* repository), HEAD is never recorded and nothing is fetched or checked out, no
\* sketch of the list is compiled at the baseline or twice, every one of them was
\* compiled exactly once when the loop is over, and no size or warnings entry of a sketch report has
\* a previous or a delta key.
C21_DeltasDisabledNoBaselineWork ==
    DeltasDisabled =>
        /\ deltas_base_ref = NoRef
        /\ \A i \in 1..Len(history) : history[i].op \notin {"get_repo", "head", "checkout"}
        /\ \A k \in 1..Len(sketch_list) :
              /\ Compilations(k, TRUE) = {}
              /\ Cardinality(Compilations(k, FALSE)) <= 1
              /\ LoopOver => Cardinality(Compilations(k, FALSE)) = 1
        /\ \A k \in 1..Len(sketch_report_list) : NoPreviousOrDelta(sketch_report_list[k])

\* With deltas disabled and warnings enabled, two sketches were compiled, one with
\* success and a size figure, one without success, and the report file is written.
C21_Witness ==
    /\ DeltasDisabled
    /\ enable_warnings_report
    /\ report_file # None
    /\ Len(sketch_report_list) = 2
    /\ \E k \in 1..2 : /\ sketch_report_list[k].compilation_success
                       /\ HasCurrentFigure(sketch_report_list[k])
    /\ \E k \in 1..2 : ~sketch_report_list[k].compilation_success

-----------------------------------------------------------------------------
(* Claims about run_command (Spec) *)

\* Positions in history of the commands given to run_command
RunCommandEvents == {i \in 1..Len(history) : history[i].op \in {"command", "compile"}}

\* C22: every command run_command has run other than a compilation had
\* exit_on_failure set, and when its status was not zero it is the last thing the
\* process did and the process has ended with that status; a compilation is run
\* with exit_on_failure false, and after one that failed the process has not ended
\* at that point: it goes on, and when it has ended the report file was written
\* after that compilation.
C22_OnlyCompilationSurvivesFailedCommand ==
    \A i \in RunCommandEvents :
        /\ history[i].exit_on_failure = (history[i].op = "command")
        /\ history[i].returncode # 0 =>
              IF history[i].op = "command"
              THEN /\ i = Len(history)
                   /\ pc = "done"
                   /\ exit_status = Some(history[i].returncode)
              ELSE /\ i = Len(history) => (pc # "done" /\ exit_status = None)
                   /\ pc = "done" => \E j \in ReportFilePosition : i < j

\* The third command of the installations ended with status 2 after two that
\* succeeded, and the process has ended with status 2.
C22_Witness ==
    /\ pc = "done"
    /\ exit_status = Some(2)
    /\ Len(history) >= 3
    /\ history[Len(history)].op = "command"
    /\ history[Len(history)].returncode = 2
    /\ history[Len(history) - 1].op = "command"
    /\ history[Len(history) - 1].returncode = 0
    /\ history[Len(history) - 2].op = "command"
    /\ history[Len(history) - 2].returncode = 0

-----------------------------------------------------------------------------
(* Claims about the number of compilations (Spec) *)

\* get_sketch_report entered the baseline pass for the sketch at the index: it
\* recorded HEAD
BaselinePassEntered(index) ==
    \E i \in 1..Len(history) : history[i].op = "head" /\ history[i].index = index

\* C23: every compilation is of a sketch of the list find_sketches returned; the
\* sketch at each index of the list the loop has reached was compiled exactly once at
\* the current revision, and all of them once the loop is over; it was compiled at
\* most once at the baseline, and exactly once if and only if its report is finished
\* after get_sketch_report entered the baseline pass for it; after a compilation that
\* failed the same sketch of the list is not compiled again.
C23_EachSketchCompiledOncePerPass ==
    /\ \A i \in 1..Len(history) :
          history[i].op = "compile" => history[i].index \in 1..Len(sketch_list)
    /\ LoopOver => sketch_index = Len(sketch_list)
    /\ \A k \in 1..Len(sketch_list) :
          /\ Cardinality(Compilations(k, FALSE)) = IF k <= sketch_index THEN 1 ELSE 0
          /\ Cardinality(Compilations(k, TRUE)) <= 1
          /\ k <= Len(sketch_report_list) =>
                (Cardinality(Compilations(k, TRUE)) = 1) = BaselinePassEntered(k)
          /\ \A i \in Compilations(k, FALSE) \cup Compilations(k, TRUE) :
                history[i].returncode # 0 =>
                    \A j \in Compilations(k, FALSE) \cup Compilations(k, TRUE) : j <= i

\* The run is over; the list holds the same sketch at its first and last index; each
\* was compiled once at the current revision and once at the baseline, and a
\* compilation at the baseline failed.
C23_Witness ==
    /\ pc = "done"
    /\ report_file # None
    /\ Len(sketch_list) >= 2
    /\ sketch_list[1] = sketch_list[Len(sketch_list)]
    /\ \A k \in 1..Len(sketch_list) :
          /\ Cardinality(Compilations(k, FALSE)) = 1
          /\ Cardinality(Compilations(k, TRUE)) = 1
    /\ \E i \in Compilations(1, TRUE) : history[i].returncode # 0

-----------------------------------------------------------------------------
(* Claims about the bands of the summaries, report after report (SpecSummary) *)

\* The sizes summary after the first n sketch reports of the list
SizesSummaryAfter(n) == get_sizes_summary_report(SubSeq(summary_input[1], 1, n))

\* The delta of a memory type in a sizes summary: None, or Some(delta)
SummaryDelta(summary, name) ==
    LET carrying == {i \in DOMAIN summary :
                        summary[i].name = name /\ "delta" \in DOMAIN summary[i]}
    IN  IF carrying = {} THEN None ELSE Some(summary[CHOOSE i \in carrying : TRUE].delta)

MemoryTypeNames == {memory_types[i].name : i \in DOMAIN memory_types}

\* C24: from one sketch report of the list to the next, a memory type's absolute
\* delta band of the sizes summary stays once it is there; when its bounds are
\* numbers they stay numbers, the minimum not higher and the maximum not lower than
\* before; when they are not applicable they stay so or both become the first
\* numeric absolute delta, the one of the report just added.
C24_AbsoluteBandNeverNarrows ==
    sizes_summary # None =>
        /\ sizes_summary[1] = SizesSummaryAfter(Len(summary_input[1]))
        /\ \A n \in 0..(Len(summary_input[1]) - 1), name \in MemoryTypeNames :
              LET before == SummaryDelta(SizesSummaryAfter(n), name)
                  after == SummaryDelta(SizesSummaryAfter(n + 1), name)
                  added == SizeDeltasOf(name, <<summary_input[1][n + 1]>>)
              IN  before # None =>
                    /\ after # None
                    /\ IsNum(before[1].absolute.minimum) = IsNum(before[1].absolute.maximum)
                    /\ IF IsNum(before[1].absolute.minimum)
                       THEN /\ IsNum(after[1].absolute.minimum)
                            /\ IsNum(after[1].absolute.maximum)
                            /\ Val(after[1].absolute.minimum)
                                  <= Val(before[1].absolute.minimum)
                            /\ Val(after[1].absolute.maximum)
                                  >= Val(before[1].absolute.maximum)
                       ELSE \/ after[1].absolute = before[1].absolute
                            \/ /\ added # <<>>
                               /\ IsNum(added[1])
                               /\ after[1].absolute = [minimum |-> added[1],
                                                       maximum |-> added[1]]

\* The summary was made of three reports with a delta for a memory type: the first
\* not applicable, the second a number, the third a lower number.
C24_Witness ==
    /\ sizes_summary # None
    /\ \E name \in MemoryTypeNames :
          LET deltas == SizeDeltasOf(name, summary_input[1])
          IN  /\ Len(deltas) = 3
              /\ deltas[1] = not_applicable_indicator
              /\ IsNum(deltas[2])
              /\ IsNum(deltas[3])
              /\ Val(deltas[3]) < Val(deltas[2])

\* The deltas of a memory type, absolute and relative, in the order of the sketch
\* reports that carry one for it
RECURSIVE SizeDeltaPairsOf(_, _)
SizeDeltaPairsOf(name, sketch_reports) ==
    IF sketch_reports = <<>> THEN <<>>
    ELSE LET carrying == SelectSeq(Head(sketch_reports).sizes,
                                   LAMBDA entry : entry.name = name
                                                    /\ "delta" \in DOMAIN entry)
         IN  [i \in DOMAIN carrying |-> carrying[i].delta]
                \o SizeDeltaPairsOf(name, Tail(sketch_reports))

\* The first of the deltas with the absolute value: the one that supplied the bound
Supplier(deltas, absolute) ==
    deltas[CHOOSE i \in DOMAIN deltas :
              /\ deltas[i].absolute = absolute
              /\ \A j \in DOMAIN deltas : deltas[j].absolute = absolute => i <= j]

\* What recomputing the relative bound from the summary's figures would give
Recomputed(absolute, maximum) ==
    IF absolute = not_applicable_indicator \/ maximum = not_applicable_indicator
    THEN not_applicable_indicator
    ELSE Num(RoundPercent(Val(absolute), Val(maximum), relative_size_report_decimal_places))

\* C25: for each memory type of the sizes summary with a delta, delta.relative.minimum
\* is the relative delta of the sketch report that supplied delta.absolute.minimum,
\* the first one of the list with that absolute delta, and delta.relative.maximum
\* the relative delta of the one that supplied delta.absolute.maximum.
C25_RelativeBoundsComeWithAbsoluteBounds ==
    sizes_summary # None =>
        \A i \in DOMAIN sizes_summary[1] :
            LET deltas == SizeDeltaPairsOf(sizes_summary[1][i].name, summary_input[1])
            IN  "delta" \in DOMAIN sizes_summary[1][i] =>
                  LET band == sizes_summary[1][i].delta
                  IN  /\ band.relative.minimum
                            = Supplier(deltas, band.absolute.minimum).relative
                      /\ band.relative.maximum
                            = Supplier(deltas, band.absolute.maximum).relative

\* A memory type's minimum and maximum were supplied by different reports, a later
\* report has the same absolute delta as the one that supplied the minimum but
\* another relative delta, and the relative minimum is not what the summary's
\* absolute minimum and maximum give.
C25_Witness ==
    /\ sizes_summary # None
    /\ \E i \in DOMAIN sizes_summary[1] :
          /\ "delta" \in DOMAIN sizes_summary[1][i]
          /\ LET deltas == SizeDeltaPairsOf(sizes_summary[1][i].name, summary_input[1])
                 band == sizes_summary[1][i].delta
             IN  /\ IsNum(band.absolute.minimum)
                 /\ band.absolute.minimum # band.absolute.maximum
                 /\ \E j \in DOMAIN deltas :
                       /\ deltas[j].absolute = band.absolute.minimum
                       /\ deltas[j].relative # band.relative.minimum
                 /\ band.relative.minimum
                       # Recomputed(band.absolute.minimum, sizes_summary[1][i].maximum)

\* The absolute delta band of a memory type in a sizes summary: None, or Some(band)
AbsoluteBand(summary, name) ==
    IF SummaryDelta(summary, name) = None THEN None
    ELSE Some(SummaryDelta(summary, name)[1].absolute)

\* The sketch reports in the order get_sketches_report was given them
ReportedSketches == sketches_report[1].boards[1].sketches

\* C26: whatever the order the sketch reports of a list are given in, also with
\* deltas that are not applicable before or after the numeric ones, the warnings
\* summary is the one of the list in its first order, and so is the absolute delta
\* band of each memory type of the sizes summary.
C26_AbsoluteBandsIndependentOfOrder ==
    sketches_report # None =>
        /\ warnings_summary[1] = get_warnings_summary_report(summary_input[1])
        /\ \A name \in MemoryTypeNames :
              AbsoluteBand(sizes_summary[1], name)
                  = AbsoluteBand(get_sizes_summary_report(summary_input[1]), name)

\* The summaries were made of three reports given in another order than the list:
\* the list has a numeric delta of flash and of the warnings first and one that is not
\* applicable last, the order given has the one that is not applicable first and
\* another number last.
C26_Witness ==
    /\ sketches_report # None
    /\ ReportedSketches # summary_input[1]
    /\ LET listed == SizeDeltasOf(memory_types[1].name, summary_input[1])
           given == SizeDeltasOf(memory_types[1].name, ReportedSketches)
           warnings_listed == WarningsDeltasOf(summary_input[1])
           warnings_given == WarningsDeltasOf(ReportedSketches)
       IN  /\ Len(listed) = 3
           /\ IsNum(listed[1]) /\ IsNum(listed[2]) /\ listed[1] # listed[2]
           /\ listed[3] = not_applicable_indicator
           /\ given[1] = not_applicable_indicator
           /\ given[3] = listed[1]
           /\ Len(warnings_given) = 3
           /\ IsNum(warnings_listed[1])
           /\ warnings_given[1] = not_applicable_indicator

-----------------------------------------------------------------------------
(* Claims about a failed compilation at the base ref (Spec) *)

\* The compilation at the base ref of the sketch at the index failed
BaselineFailed(index) == \E i \in Compilations(index, TRUE) : history[i].returncode # 0

\* The report says nothing of the baseline but that it is not applicable
PreviousNotApplicable(report) ==
    /\ \A j \in 1..Len(report.sizes) :
          /\ report.sizes[j].previous
                = [absolute |-> not_applicable_indicator, relative |-> not_applicable_indicator]
          /\ report.sizes[j].delta
                = [absolute |-> not_applicable_indicator, relative |-> not_applicable_indicator]
    /\ "warnings" \in DOMAIN report =>
          /\ report.warnings.previous = [absolute |-> not_applicable_indicator]
          /\ report.warnings.delta = [absolute |-> not_applicable_indicator]

\* Apart from previous and delta the report is the one of a sketch without a
\* baseline pass
SameButPreviousAndDelta(report, single_pass) ==
    /\ DOMAIN report = DOMAIN single_pass
    /\ report.name = single_pass.name
    /\ report.compilation_success = single_pass.compilation_success
    /\ Len(report.sizes) = Len(single_pass.sizes)
    /\ \A j \in 1..Len(report.sizes) :
          /\ DOMAIN report.sizes[j] = DOMAIN single_pass.sizes[j] \cup {"previous", "delta"}
          /\ \A key \in DOMAIN single_pass.sizes[j] :
                report.sizes[j][key] = single_pass.sizes[j][key]
    /\ "warnings" \in DOMAIN report =>
          report.warnings.current = single_pass.warnings.current

\* C28: for every finished report of a sketch whose compilation at the base ref
\* failed, compilation_success is the result of its compilation at the current
\* revision, its previous figures and deltas are all not applicable, and (for the
\* sketch just reported) everything else is as in the report without a baseline
\* pass; the process ends with status 1 if and only if a compilation at the current
\* revision failed.
C28_FailedBaselineOnlyGivesNotApplicable ==
    /\ \A k \in 1..Len(sketch_report_list) :
          BaselineFailed(k) =>
              /\ \A i \in Compilations(k, FALSE) :
                    sketch_report_list[k].compilation_success = (history[i].returncode = 0)
              /\ PreviousNotApplicable(sketch_report_list[k])
              /\ k = sketch_index =>
                    SameButPreviousAndDelta(sketch_report_list[k],
                                            SketchReport(compilation_result[1], None))
    /\ (exit_status # None /\ FindSketchesReturned) =>
          (exit_status = Some(1)) = SomeCurrentCompilationFailed

\* Every compilation at the base ref of a run of two sketches failed, the reports are
\* finished with compilation_success true and the process ended with status 0.
C28_Witness ==
    /\ pc = "done"
    /\ exit_status = Some(0)
    /\ Len(sketch_report_list) = 2
    /\ \A k \in 1..2 : /\ BaselineFailed(k)
                       /\ sketch_report_list[k].compilation_success
    /\ "warnings" \in DOMAIN sketch_report_list[2]

-----------------------------------------------------------------------------
(* Claims about the elapsed time (SpecElapsed) *)

\* The seconds a printed part stands for
SecondsOf(part) ==
    part.number * (IF part.unit = "h" THEN 3600 ELSE IF part.unit = "m" THEN 60 ELSE 1)

RECURSIVE PrintedSeconds(_)
PrintedSeconds(parts) ==
    IF parts = <<>> THEN 0 ELSE SecondsOf(Head(parts)) + PrintedSeconds(Tail(parts))

\* C29: what compile_sketch prints after a successful compilation is an optional
\* hours part, an optional minutes part and a seconds part, in this order; minutes
\* and seconds are below 60; hours, minutes and seconds add up to the whole seconds
\* elapsed.
C29_PrintedTimeIsTheElapsedSeconds ==
    time_summary # None =>
        LET parts == time_summary[1]
            units == [i \in DOMAIN parts |-> parts[i].unit]
        IN  /\ units \in {<<"s">>, <<"m", "s">>, <<"h", "m", "s">>}
            /\ \A i \in DOMAIN parts : parts[i].unit # "h" => parts[i].number < 60
            /\ PrintedSeconds(parts) = diff_time[1].seconds

-----------------------------------------------------------------------------
(* Claims about the columns of a board (SpecColumns) *)

\* The identifier of the column at a position of the sheet (1 is A, 27 is AA)
RECURSIVE ColumnIdentifier(_)
ColumnIdentifier(position) ==
    IF position <= 26 THEN <<Alphabet[position]>>
    ELSE Append(ColumnIdentifier((position - 1) \div 26), Alphabet[((position - 1) % 26) + 1])

\* Position of the first heading equal to "<fqbn> flash", else of the first column
\* after the last heading
ExpectedFlashPosition(fqbn, heading_row) ==
    LET matches == {i \in DOMAIN heading_row :
                       heading_row[i] = <<fqbn, flash_heading_indicator>>}
    IN  IF matches = {} THEN Len(heading_row) + 1
        ELSE CHOOSE i \in matches : \A j \in matches : i <= j

\* C30: for a heading row of any length, the flash column get_data_column_letters
\* returns is the identifier of the column of the heading equal to "<fqbn> flash",
\* or of the first column after the last heading when none is, and the RAM column
\* the identifier of the column after it, also beyond the 26th column.
C30_ColumnLettersAreColumnIdentifiers ==
    data_column_letters # None =>
        LET position == ExpectedFlashPosition(heading_row_input[1].fqbn,
                                              heading_row_input[1].heading_row)
        IN  /\ data_column_letters[1].flash = ColumnIdentifier(position)
            /\ data_column_letters[1].ram = ColumnIdentifier(position + 1)

-----------------------------------------------------------------------------
(* Claims about the sheet (SpecTrends) *)

FlashColumns(cells, fqbn) ==
    {c \in 1..(IF cells = <<>> THEN 0 ELSE Len(cells[1])) :
        CellAt(cells, 1, c) = <<fqbn, flash_heading_indicator>>}

RamColumns(cells, fqbn) ==
    {c \in 1..(IF cells = <<>> THEN 0 ELSE Len(cells[1])) :
        CellAt(cells, 1, c) = <<fqbn, ram_heading_indicator>>}

CommitRows(cells, commit_hash) ==
    {r \in 1..Len(cells) : displayed(CellAt(cells, r, 3)) = <<commit_hash>>}

RequestsOf(run, method) ==
    {i \in DOMAIN run.requests : run.requests[i].method = method}

\* The run that returns in this step, if one does
Returning == {job \in Jobs : jobs[job].pc = "write_memory_usage_data" /\ jobs'[job].pc = "idle"}

HeadingRowRead(run) ==
    LET reads == RequestsOf(run, "get_heading_row_data")
    IN  run.requests[CHOOSE i \in reads : \A j \in reads : j <= i].response

\* C27: a run writes the shared headings only when the heading row it read is empty,
\* adds the heading columns of the board only when no heading it read equals
\* "<fqbn> flash", and creates a row only when no cell of the commit hash column it
\* read equals the commit hash; and when a run returns, no two runs of different FQBN
\* or commit hash having been under way at once, the sheet holds exactly one column
\* pair for the FQBN of the run and exactly one row for its commit, and the memory
\* data of the run is at that row and column pair.
C27_ReportSizeTrendsAddsColumnsAndRowOnce ==
    [][Returning # {} =>
        LET run == last_run'[1]
            fqbn == run.report.fqbn
            commit_hash == run.report.commit_hash
            flash_columns == FlashColumns(spreadsheet', fqbn)
            commit_rows == CommitRows(spreadsheet', commit_hash)
            commit_hash_column_data ==
                run.requests[CHOOSE i \in RequestsOf(run, "get_current_row") : TRUE].response[1]
        IN  /\ RequestsOf(run, "populate_shared_data_headings") # {}
                <=> run.requests[1].response = None
            /\ RequestsOf(run, "populate_data_column_headings") # {}
                <=> \A c \in DOMAIN HeadingRowRead(run)[1] :
                       HeadingRowRead(run)[1][c] # <<fqbn, flash_heading_indicator>>
            /\ RequestsOf(run, "create_row") # {}
                <=> \A r \in DOMAIN commit_hash_column_data :
                       commit_hash_column_data[r] # <<commit_hash>>
            /\ ~conflicting_runs' =>
                /\ Cardinality(flash_columns) = 1
                /\ RamColumns(spreadsheet', fqbn) = {c + 1 : c \in flash_columns}
                /\ Cardinality(commit_rows) = 1
                /\ \A r \in commit_rows, c \in flash_columns :
                       /\ CellAt(spreadsheet', r, c) = <<run.report.flash>>
                       /\ CellAt(spreadsheet', r, c + 1) = <<run.report.ram>>
                       /\ run.requests[Len(run.requests)] =
                            Request("write_memory_usage_data", <<Alphabet[c]>>,
                                    <<Alphabet[c + 1]>>, r, None)
    ]_vars

\* A run has returned that found the columns of its board and the row of its commit
\* made by the run of the other job, of the same FQBN and commit hash, which is still
\* under way: the run wrote nothing but its memory data, in the second row.
C27_Witness ==
    /\ last_run # None
    /\ ~conflicting_runs
    /\ \A i \in DOMAIN last_run[1].requests :
          last_run[1].requests[i].method \in
              {"get_heading_row_data", "get_current_row", "write_memory_usage_data"}
    /\ last_run[1].requests[Len(last_run[1].requests)].row = 2
    /\ \E job \in Jobs \ {last_run[1].job} :
          /\ jobs[job].pc = "write_memory_usage_data"
          /\ jobs[job].report[1].fqbn = last_run[1].report.fqbn
          /\ jobs[job].report[1].commit_hash = last_run[1].report.commit_hash
          /\ \E i \in DOMAIN jobs[job].requests : jobs[job].requests[i].method = "create_row"

====
